---- MODULE Spec2Model ----
(***************************************************************************)
(* Model of the Missive MCP local server (src/local-server/main.py).       *)
(*                                                                         *)
(* Ten tool handlers proxy the Missive REST API.  Each handler resolves    *)
(* the credential, validates its parameters, builds one request, sends it  *)
(* through a fresh httpx.AsyncClient, and turns the response or the        *)
(* failure into a text.                                                    *)
(*                                                                         *)
(* Conventions of the model:                                               *)
(*  - a Python Optional value is None (<<>>) or Some(v) (<<v>>);           *)
(*  - a text (the str a handler returns) is the sequence of the pieces an  *)
(*    f-string concatenates, so that the parameters it names can be seen;  *)
(*  - a dict is a function from its keys;                                  *)
(*  - the pictograph that starts the success headers is left out of the    *)
(*    string literals.                                                     *)
(***************************************************************************)
EXTENDS Integers, Sequences, FiniteSets, TLC

VARIABLES
    env,    \* os.environ's MISSIVE_API_TOKEN: None or Some(string)
    inv     \* the invocations in progress, one record per slot

vars == <<env, inv>>

----------------------------------------------------------------------------
(* Bounds of the model *)

\* limits range over the integers within LimitSpread of 0 and of each maximum
LimitSpread == 1

----------------------------------------------------------------------------
(* Python values *)

None == <<>>
Some(v) == <<v>>

\* truthiness of an Optional[str] / Optional[int] / Optional[List[str]]
TruthyStr(o) == o # None /\ o[1] # ""
TruthyInt(o) == o # None /\ o[1] # 0
TruthyList(o) == o # None /\ o[1] # <<>>

\* min(a, b)
Min(a, b) == IF a <= b THEN a ELSE b

\* s[:n] on a string held as a sequence of characters
Slice(s, n) == SubSeq(s, 1, Min(Len(s), n))

\* a dict with one more key, as d[k] = v
DictSet(d, k, v) == (k :> v) @@ d

EmptyDict == [k \in {} |-> 0]

----------------------------------------------------------------------------
(* Exceptions *)

\* the class hierarchy the except clauses test against
Bases(cls) ==
    CASE cls = "JSONDecodeError" -> {"JSONDecodeError", "ValueError", "Exception"}
      [] cls = "ValueError"      -> {"ValueError", "Exception"}
      [] cls = "HTTPStatusError" -> {"HTTPStatusError", "HTTPError", "Exception"}
      [] cls = "ConnectError"    -> {"ConnectError", "TransportError", "HTTPError", "Exception"}
      [] cls = "AttributeError"  -> {"AttributeError", "Exception"}
      [] cls = "TypeError"       -> {"TypeError", "Exception"}
      [] cls = "RecursionError"  -> {"RecursionError", "RuntimeError", "Exception"}
      [] OTHER                   -> {cls}

IsInstance(exc, cls) == cls \in Bases(exc.cls)

Exc(cls, msg) == [cls |-> cls, msg |-> msg, status |-> 0]
StatusExc(code) == [cls |-> "HTTPStatusError", msg |-> "status", status |-> code]

\* what a piece of handler code comes to
Return(text) == [kind |-> "return", text |-> text]
Raise(exc) == [kind |-> "raise", exc |-> exc]
Request(api_token, method, path, params, json) ==
    [kind |-> "request",
     req |-> [method |-> method, path |-> path, params |-> params, json |-> json,
              authorization |-> <<"Bearer ", api_token>>]]

----------------------------------------------------------------------------
(* Authorization resolver *)

get_api_token_nocheck(e) ==
    [raised |-> FALSE, value |-> IF e = None THEN "" ELSE e[1],
     exc |-> Exc("ValueError", "")]

get_api_token(e) ==
    IF ~TruthyStr(e)
    THEN [raised |-> TRUE, value |-> "",
          exc |-> Exc("ValueError", "MISSIVE_API_TOKEN not set in environment")]
    ELSE [raised |-> FALSE, value |-> e[1], exc |-> Exc("ValueError", "")]

\* the first statement of every handler:
\*   try: api_token = get_api_token()
\*   except ValueError as e: return f"Error: {str(e)}"
TokenError(exc) ==
    IF IsInstance(exc, "ValueError")
    THEN Return(<<"Error: ", exc.msg>>)
    ELSE Raise(exc)

----------------------------------------------------------------------------
(* Program constants *)

ConversationsMaxLimit == 50
MessagesMaxLimit == 10
CommentsMaxLimit == 10
TitleMax == 1000
DescriptionMax == 10000

BaseUrl == "https://public.missiveapp.com/v1"

Mailboxes == {"inbox", "all", "assigned", "closed", "flagged", "trashed", "junked", "snoozed"}

TaskStates == {"todo", "in_progress", "closed"}

----------------------------------------------------------------------------
(* get_conversations *)

get_conversations_prepare(P, e) ==
    LET t == get_api_token(e) IN
    IF t.raised THEN TokenError(t.exc)
    ELSE Request(t.value, "GET", <<BaseUrl, "/conversations">>,
                 [inbox |-> "true", limit |-> 10], None)

----------------------------------------------------------------------------
(* get_conversations_filtered *)

\* the if/elif chain on mailbox: the plain flag, or no flag for the else branch
mailbox_params_lenient(mailbox, limit) ==
    LET params == [limit |-> Min(limit, ConversationsMaxLimit)] IN
    IF mailbox \in Mailboxes THEN Some(DictSet(params, mailbox, "true"))
    ELSE Some(DictSet(params, "inbox", "true"))

mailbox_params(mailbox, limit) ==
    LET params == [limit |-> Min(limit, ConversationsMaxLimit)] IN
    IF mailbox = "inbox" THEN Some(DictSet(params, "inbox", "true"))
    ELSE IF mailbox = "all" THEN Some(DictSet(params, "all", "true"))
    ELSE IF mailbox = "assigned" THEN Some(DictSet(params, "assigned", "true"))
    ELSE IF mailbox = "closed" THEN Some(DictSet(params, "closed", "true"))
    ELSE IF mailbox = "flagged" THEN Some(DictSet(params, "flagged", "true"))
    ELSE IF mailbox = "trashed" THEN Some(DictSet(params, "trashed", "true"))
    ELSE IF mailbox = "junked" THEN Some(DictSet(params, "junked", "true"))
    ELSE IF mailbox = "snoozed" THEN Some(DictSet(params, "snoozed", "true"))
    ELSE None

\* `if team_id:` replaces params for inbox, closed and all
team_params_unclamped(params, mailbox, limit, team_id) ==
    IF TruthyStr(team_id)
    THEN IF mailbox = "inbox"
         THEN [team_inbox |-> team_id[1], limit |-> limit]
         ELSE IF mailbox = "closed"
         THEN [team_closed |-> team_id[1], limit |-> limit]
         ELSE IF mailbox = "all"
         THEN [team_all |-> team_id[1], limit |-> limit]
         ELSE params
    ELSE params

team_params_added(params, mailbox, limit, team_id) ==
    IF TruthyStr(team_id)
    THEN IF mailbox = "inbox" THEN DictSet(params, "team_inbox", team_id[1])
         ELSE IF mailbox = "closed" THEN DictSet(params, "team_closed", team_id[1])
         ELSE IF mailbox = "all" THEN DictSet(params, "team_all", team_id[1])
         ELSE params
    ELSE params

team_params(params, mailbox, limit, team_id) ==
    IF TruthyStr(team_id)
    THEN IF mailbox = "inbox"
         THEN [team_inbox |-> team_id[1], limit |-> Min(limit, ConversationsMaxLimit)]
         ELSE IF mailbox = "closed"
         THEN [team_closed |-> team_id[1], limit |-> Min(limit, ConversationsMaxLimit)]
         ELSE IF mailbox = "all"
         THEN [team_all |-> team_id[1], limit |-> Min(limit, ConversationsMaxLimit)]
         ELSE params
    ELSE params

InvalidMailboxText(mailbox) ==
    <<"Error: Invalid mailbox '", mailbox,
      "'. Valid options: inbox, all, assigned, closed, flagged, trashed, junked, snoozed">>

get_conversations_filtered_prepare(P, e) ==
    LET t == get_api_token(e)
        mp == mailbox_params(P.mailbox, P.limit)
    IN  IF t.raised THEN TokenError(t.exc)
        ELSE IF mp = None THEN Return(InvalidMailboxText(P.mailbox))
        ELSE Request(t.value, "GET", <<BaseUrl, "/conversations">>,
                     team_params(mp[1], P.mailbox, P.limit, P.team_id), None)

----------------------------------------------------------------------------
(* get_conversation_details, get_conversation_messages, get_conversation_comments *)

get_conversation_details_prepare(P, e) ==
    LET t == get_api_token(e) IN
    IF t.raised THEN TokenError(t.exc)
    ELSE Request(t.value, "GET", <<BaseUrl, "/conversations/", P.conversation_id>>,
                 EmptyDict, None)

messages_params(limit) == [limit |-> Min(limit, MessagesMaxLimit)]

get_conversation_messages_prepare(P, e) ==
    LET t == get_api_token(e) IN
    IF t.raised THEN TokenError(t.exc)
    ELSE Request(t.value, "GET",
                 <<BaseUrl, "/conversations/", P.conversation_id, "/messages">>,
                 messages_params(P.limit), None)

comments_params(limit) == [limit |-> Min(limit, CommentsMaxLimit)]

get_conversation_comments_prepare(P, e) ==
    LET t == get_api_token(e) IN
    IF t.raised THEN TokenError(t.exc)
    ELSE Request(t.value, "GET",
                 <<BaseUrl, "/conversations/", P.conversation_id, "/comments">>,
                 comments_params(P.limit), None)

----------------------------------------------------------------------------
(* create_task *)

\* task_data with the team written whether it was given or not
create_task_data_team_always(P) ==
    LET d0 == [title |-> Slice(P.title, TitleMax),
               description |-> IF P.description # <<>>
                               THEN Slice(P.description, DescriptionMax) ELSE <<>>]
        d1 == IF TruthyStr(P.organization_id)
              THEN DictSet(d0, "organization", P.organization_id[1]) ELSE d0
        d2 == DictSet(d1, "team", IF P.team_id = None THEN "" ELSE P.team_id[1])
        d3 == IF TruthyList(P.assignee_ids)
              THEN DictSet(d2, "assignees", P.assignee_ids[1]) ELSE d2
        d4 == IF TruthyInt(P.due_date_timestamp)
              THEN DictSet(d3, "due_at", P.due_date_timestamp[1]) ELSE d3
    IN  IF P.is_subtask
        THEN DictSet(DictSet(d4, "conversation",
                             IF P.conversation_id = None THEN "" ELSE P.conversation_id[1]),
                     "subtask", TRUE)
        ELSE d4

\* task_data as it stands when the request is built
create_task_data(P) ==
    LET d0 == [title |-> Slice(P.title, TitleMax),
               description |-> IF P.description # <<>>
                               THEN Slice(P.description, DescriptionMax) ELSE <<>>]
        d1 == IF TruthyStr(P.organization_id)
              THEN DictSet(d0, "organization", P.organization_id[1]) ELSE d0
        d2 == IF TruthyStr(P.team_id) THEN DictSet(d1, "team", P.team_id[1]) ELSE d1
        d3 == IF TruthyList(P.assignee_ids)
              THEN DictSet(d2, "assignees", P.assignee_ids[1]) ELSE d2
        d4 == IF TruthyInt(P.due_date_timestamp)
              THEN DictSet(d3, "due_at", P.due_date_timestamp[1]) ELSE d3
    IN  IF P.is_subtask
        THEN DictSet(DictSet(d4, "conversation",
                             IF P.conversation_id = None THEN "" ELSE P.conversation_id[1]),
                     "subtask", TRUE)
        ELSE d4

\* the conditional requirements: None, or Some(the error text returned)
create_task_validate_nosubtask(P) ==
    IF P.is_subtask
    THEN None
    ELSE IF ~TruthyStr(P.team_id) /\ ~TruthyList(P.assignee_ids)
         THEN Some(<<"Error: Either team_id or assignee_ids is required for standalone tasks">>)
         ELSE None

create_task_validate(P) ==
    IF P.is_subtask
    THEN IF ~TruthyStr(P.conversation_id)
         THEN Some(<<"Error: conversation_id is required when creating a subtask">>)
         ELSE None
    ELSE IF ~TruthyStr(P.team_id) /\ ~TruthyList(P.assignee_ids)
         THEN Some(<<"Error: Either team_id or assignee_ids is required for standalone tasks">>)
         ELSE None

create_task_prepare(P, e) ==
    LET t == get_api_token(e)
        v == create_task_validate(P)
    IN  IF t.raised THEN TokenError(t.exc)
        ELSE IF v # None THEN Return(v[1])
        ELSE Request(t.value, "POST", <<BaseUrl, "/tasks">>, EmptyDict,
                     Some([tasks |-> create_task_data(P)]))

----------------------------------------------------------------------------
(* update_task *)

\* task_data with only the provided fields
update_task_data(P) ==
    LET d1 == IF P.title # None
              THEN DictSet(EmptyDict, "title", Slice(P.title[1], TitleMax)) ELSE EmptyDict
        d2 == IF P.description # None
              THEN DictSet(d1, "description", Slice(P.description[1], DescriptionMax))
              ELSE d1
        d3 == IF P.state # None THEN DictSet(d2, "state", P.state[1]) ELSE d2
        d4 == IF P.assignee_ids # None THEN DictSet(d3, "assignees", P.assignee_ids[1]) ELSE d3
        d5 == IF P.team_id # None THEN DictSet(d4, "team", P.team_id[1]) ELSE d4
    IN  IF P.due_date_timestamp # None
        THEN DictSet(d5, "due_at", P.due_date_timestamp[1]) ELSE d5

\* the two early returns: None, or Some(the error text returned)
update_task_validate_nostate(P) ==
    IF DOMAIN update_task_data(P) = {}
    THEN Some(<<"Error: At least one field must be provided to update">>)
    ELSE None

update_task_validate_noempty(P) ==
    IF P.state # None /\ P.state[1] \notin TaskStates
    THEN Some(<<"Error: state must be one of: todo, in_progress, closed">>)
    ELSE None

update_task_validate(P) ==
    IF P.state # None /\ P.state[1] \notin TaskStates
    THEN Some(<<"Error: state must be one of: todo, in_progress, closed">>)
    ELSE IF DOMAIN update_task_data(P) = {}
         THEN Some(<<"Error: At least one field must be provided to update">>)
         ELSE None

update_task_prepare(P, e) ==
    LET t == get_api_token(e)
        v == update_task_validate(P)
    IN  IF t.raised THEN TokenError(t.exc)
        ELSE IF v # None THEN Return(v[1])
        ELSE Request(t.value, "PATCH", <<BaseUrl, "/tasks/", P.task_id>>, EmptyDict,
                     Some([tasks |-> update_task_data(P)]))

----------------------------------------------------------------------------
(* get_message_details, search_messages_by_email_id *)

get_message_details_prepare(P, e) ==
    LET t == get_api_token(e) IN
    IF t.raised THEN TokenError(t.exc)
    ELSE Request(t.value, "GET", <<BaseUrl, "/messages/", P.message_id>>, EmptyDict, None)

search_messages_by_email_id_prepare(P, e) ==
    LET t == get_api_token(e) IN
    IF t.raised THEN TokenError(t.exc)
    ELSE Request(t.value, "GET", <<BaseUrl, "/messages">>,
                 [email_message_id |-> P.email_message_id], None)

----------------------------------------------------------------------------
(* create_custom_message *)

FromJson == "{\"name\": \"John\", \"address\": \"john@example.com\"}"
ToJson == "[{\"name\": \"Jane\", \"address\": \"jane@example.com\"}]"
FromCut == "{\"name\": \"John\""
ToCut == "[{\"name\": \"Jane\""
\* stands for '[' * 100000, nested deeper than the interpreter's recursion limit
DeepJson == "[[[[[[[[[[[[[[[[[[[[ (100000 times)"

\* json.loads on the texts the model calls it with: the value, or the
\* exception it raises (JSONDecodeError for a text that is not JSON,
\* RecursionError from the decoder for a text nested too deep)
json_loads(s) ==
    CASE s = FromJson ->
           [ok |-> TRUE, exc |-> Exc("JSONDecodeError", ""),
            value |-> [t |-> "dict", v |-> <<[name |-> "John", address |-> "john@example.com"]>>]]
      [] s = ToJson ->
           [ok |-> TRUE, exc |-> Exc("JSONDecodeError", ""),
            value |-> [t |-> "list", v |-> <<[name |-> "Jane", address |-> "jane@example.com"]>>]]
      [] s = "null" ->
           [ok |-> TRUE, exc |-> Exc("JSONDecodeError", ""),
            value |-> [t |-> "null", v |-> <<>>]]
      [] s = FromCut ->
           [ok |-> FALSE, value |-> [t |-> "null", v |-> <<>>],
            exc |-> Exc("JSONDecodeError", "Expecting ',' delimiter: line 1 column 16 (char 15)")]
      [] s = ToCut ->
           [ok |-> FALSE, value |-> [t |-> "null", v |-> <<>>],
            exc |-> Exc("JSONDecodeError", "Expecting ',' delimiter: line 1 column 17 (char 16)")]
      [] s = DeepJson ->
           [ok |-> FALSE, value |-> [t |-> "null", v |-> <<>>],
            exc |-> Exc("RecursionError",
                        "maximum recursion depth exceeded while decoding a JSON array from a unicode string")]
      [] s \in {"", "not json"} ->
           [ok |-> FALSE, value |-> [t |-> "null", v |-> <<>>],
            exc |-> Exc("JSONDecodeError", "Expecting value: line 1 column 1 (char 0)")]

\* the try block that parses both descriptors, from_field_data first
parse_fields(from_field_data, to_fields_data) ==
    LET f == json_loads(from_field_data)
        g == json_loads(to_fields_data)
    IN  IF ~f.ok
        THEN [ok |-> FALSE, exc |-> f.exc, from_field |-> f.value, to_fields |-> f.value]
        ELSE IF ~g.ok
        THEN [ok |-> FALSE, exc |-> g.exc, from_field |-> f.value, to_fields |-> g.value]
        ELSE [ok |-> TRUE, exc |-> f.exc, from_field |-> f.value, to_fields |-> g.value]

create_custom_message_data(P, from_field, to_fields) ==
    LET d0 == [account |-> P.account_id, body |-> P.body,
               from_field |-> from_field, to_fields |-> to_fields]
        d1 == IF TruthyStr(P.subject) THEN DictSet(d0, "subject", P.subject[1]) ELSE d0
    IN  IF TruthyStr(P.conversation_id)
        THEN DictSet(d1, "conversation", P.conversation_id[1]) ELSE d1

create_custom_message_prepare(P, e) ==
    LET t == get_api_token(e)
        j == parse_fields(P.from_field_data, P.to_fields_data)
    IN  IF t.raised THEN TokenError(t.exc)
        ELSE IF ~j.ok
        THEN IF IsInstance(j.exc, "JSONDecodeError")
             THEN Return(<<"Error: Invalid JSON format in from_field_data or to_fields_data: ",
                           j.exc.msg>>)
             ELSE Raise(j.exc)
        ELSE Request(t.value, "POST", <<BaseUrl, "/messages">>, EmptyDict,
                     Some([messages |-> create_custom_message_data(P, j.from_field, j.to_fields)]))

----------------------------------------------------------------------------
(* Failure mapping: the except clauses of the request block of each handler *)

UnauthorizedText ==
    <<"Error: Invalid Missive API token. Please check your token in Claude Desktop config.">>

\* except httpx.HTTPStatusError as e, in get_conversations
get_conversations_http_error(P, code) ==
    IF code = 401 THEN UnauthorizedText
    ELSE <<"Error fetching conversations: HTTP ", ToString(code)>>

\* except Exception as e, in get_conversations
get_conversations_error(P, exc) == <<"Error fetching conversations: ", exc.msg>>

\* except httpx.HTTPStatusError as e, in get_conversations_filtered
get_conversations_filtered_http_error(P, code) ==
    IF code = 401 THEN UnauthorizedText
    ELSE <<"Error fetching conversations: HTTP ", ToString(code)>>

\* except Exception as e, in get_conversations_filtered
get_conversations_filtered_error(P, exc) == <<"Error fetching conversations: ", exc.msg>>

\* except httpx.HTTPStatusError as e, in get_conversation_details
get_conversation_details_http_error_no404(P, code) ==
    IF code = 401 THEN UnauthorizedText
    ELSE <<"Error fetching conversation: HTTP ", ToString(code)>>

get_conversation_details_http_error(P, code) ==
    IF code = 401 THEN UnauthorizedText
    ELSE IF code = 404 THEN <<"Error: Conversation ", P.conversation_id, " not found">>
    ELSE <<"Error fetching conversation: HTTP ", ToString(code)>>

\* except Exception as e, in get_conversation_details
get_conversation_details_error(P, exc) == <<"Error fetching conversation: ", exc.msg>>

\* except httpx.HTTPStatusError as e, in get_conversation_messages
get_conversation_messages_http_error(P, code) ==
    IF code = 401 THEN UnauthorizedText
    ELSE IF code = 404 THEN <<"Error: Conversation ", P.conversation_id, " not found">>
    ELSE <<"Error fetching messages: HTTP ", ToString(code)>>

\* except Exception as e, in get_conversation_messages
get_conversation_messages_error(P, exc) == <<"Error fetching messages: ", exc.msg>>

\* except httpx.HTTPStatusError as e, in get_conversation_comments
get_conversation_comments_http_error(P, code) ==
    IF code = 401 THEN UnauthorizedText
    ELSE IF code = 404 THEN <<"Error: Conversation ", P.conversation_id, " not found">>
    ELSE <<"Error fetching comments: HTTP ", ToString(code)>>

\* except Exception as e, in get_conversation_comments
get_conversation_comments_error(P, exc) == <<"Error fetching comments: ", exc.msg>>

\* except httpx.HTTPStatusError as e, in create_task
create_task_http_error_no401(P, code) ==
    IF code = 400 THEN <<"Error: Invalid task data. Please check your parameters.">>
    ELSE <<"Error creating task: HTTP ", ToString(code)>>

create_task_http_error(P, code) ==
    IF code = 401 THEN UnauthorizedText
    ELSE IF code = 400 THEN <<"Error: Invalid task data. Please check your parameters.">>
    ELSE <<"Error creating task: HTTP ", ToString(code)>>

\* except Exception as e, in create_task
create_task_error(P, exc) == <<"Error creating task: ", exc.msg>>

\* except httpx.HTTPStatusError as e, in update_task
update_task_http_error(P, code) ==
    IF code = 401 THEN UnauthorizedText
    ELSE IF code = 404 THEN <<"Error: Task ", P.task_id, " not found">>
    ELSE IF code = 400 THEN <<"Error: Invalid task data. Please check your parameters.">>
    ELSE <<"Error updating task: HTTP ", ToString(code)>>

\* except Exception as e, in update_task
update_task_error(P, exc) == <<"Error updating task: ", exc.msg>>

\* except httpx.HTTPStatusError as e, in get_message_details
get_message_details_http_error(P, code) ==
    IF code = 401 THEN UnauthorizedText
    ELSE IF code = 404 THEN <<"Error: Message ", P.message_id, " not found">>
    ELSE <<"Error fetching message: HTTP ", ToString(code)>>

\* except Exception as e, in get_message_details
get_message_details_error(P, exc) == <<"Error fetching message: ", exc.msg>>

\* except httpx.HTTPStatusError as e, in search_messages_by_email_id
search_messages_by_email_id_http_error(P, code) ==
    IF code = 401 THEN UnauthorizedText
    ELSE IF code = 404 THEN <<"Error: No messages found with Message-ID: ", P.email_message_id>>
    ELSE <<"Error searching messages: HTTP ", ToString(code)>>

\* except Exception as e, in search_messages_by_email_id
search_messages_by_email_id_error(P, exc) == <<"Error searching messages: ", exc.msg>>

\* except httpx.HTTPStatusError as e, in create_custom_message
create_custom_message_http_error(P, code) ==
    IF code = 401 THEN UnauthorizedText
    ELSE IF code = 400 THEN <<"Error: Invalid message data. Please check your parameters.">>
    ELSE <<"Error creating message: HTTP ", ToString(code)>>

\* except Exception as e, in create_custom_message
create_custom_message_error(P, exc) == <<"Error creating message: ", exc.msg>>

http_error(call, code) ==
    CASE call.tool = "get_conversations" -> get_conversations_http_error(call, code)
      [] call.tool = "get_conversations_filtered" -> get_conversations_filtered_http_error(call, code)
      [] call.tool = "get_conversation_details" -> get_conversation_details_http_error(call, code)
      [] call.tool = "get_conversation_messages" -> get_conversation_messages_http_error(call, code)
      [] call.tool = "get_conversation_comments" -> get_conversation_comments_http_error(call, code)
      [] call.tool = "create_task" -> create_task_http_error(call, code)
      [] call.tool = "update_task" -> update_task_http_error(call, code)
      [] call.tool = "get_message_details" -> get_message_details_http_error(call, code)
      [] call.tool = "search_messages_by_email_id" -> search_messages_by_email_id_http_error(call, code)
      [] call.tool = "create_custom_message" -> create_custom_message_http_error(call, code)

other_error(call, exc) ==
    CASE call.tool = "get_conversations" -> get_conversations_error(call, exc)
      [] call.tool = "get_conversations_filtered" -> get_conversations_filtered_error(call, exc)
      [] call.tool = "get_conversation_details" -> get_conversation_details_error(call, exc)
      [] call.tool = "get_conversation_messages" -> get_conversation_messages_error(call, exc)
      [] call.tool = "get_conversation_comments" -> get_conversation_comments_error(call, exc)
      [] call.tool = "create_task" -> create_task_error(call, exc)
      [] call.tool = "update_task" -> update_task_error(call, exc)
      [] call.tool = "get_message_details" -> get_message_details_error(call, exc)
      [] call.tool = "search_messages_by_email_id" -> search_messages_by_email_id_error(call, exc)
      [] call.tool = "create_custom_message" -> create_custom_message_error(call, exc)

\* the two except clauses that close the request block, in their order
except_clauses(call, exc) ==
    IF IsInstance(exc, "HTTPStatusError") THEN Return(http_error(call, exc.status))
    ELSE IF IsInstance(exc, "Exception") THEN Return(other_error(call, exc))
    ELSE Raise(exc)

----------------------------------------------------------------------------
(* Response formatter *)

(* The remote answers of the model.  A 2xx answer carries one of these      *)
(* bodies (written for the key K the handler reads):                        *)
(*   "unparseable"  not JSON: response.json() raises                        *)
(*   "array"        []: data.get raises AttributeError                      *)
(*   "object_empty" {}: the key is absent                                   *)
(*   "object_bad"   {K: "x"}: the entity is a string                        *)
(*   "object_items" {K: [{"id": "i1"}]} for a listing,                      *)
(*                  {K: {"id": "i1"}} for a single entity: every field but  *)
(*                  the id is absent                                        *)
(*   "object_full"  the same with every field the handler reads present     *)
(*   "object_six"   a listing of six entities, more than get_conversations  *)
(*                  renders                                                 *)
(*   "object_long", "object_exact"  a full message whose body, once its     *)
(*                  tags are removed, has one character more than the body  *)
(*                  budget, or exactly the budget                           *)
(* A text field whose length or characters the handler works on (preview,   *)
(* body) is a sequence of characters; its characters are pieces of the      *)
(* returned text.  No body of the model holds a JSON null.                  *)
Bodies == {"unparseable", "array", "object_empty", "object_bad", "object_items"}

\* the bodies the remote end may answer a tool with
BodiesOf(tool) ==
    Bodies \cup {"object_full"}
    \cup (IF tool = "get_conversations" THEN {"object_six"} ELSE {})
    \cup (IF tool = "get_message_details" THEN {"object_long", "object_exact"} ELSE {})

ListAttributeError == Exc("AttributeError", "'list' object has no attribute 'get'")
StrAttributeError == Exc("AttributeError", "'str' object has no attribute 'get'")

\* conversations[:5]
ListCap == 5
\* preview[:100]
PreviewMax == 100
\* clean_body[:500]
BodyMax == 500

\* d.get(k, default)
Get(d, k, default) == IF k \in DOMAIN d THEN d[k] ELSE default

RECURSIVE Flatten(_)
\* the concatenation of a list of texts
Flatten(ss) == IF ss = <<>> THEN <<>> ELSE ss[1] \o Flatten(Tail(ss))

\* ', '.join(items), each item a text; the join of no item is the empty string
Join(items) ==
    IF items = <<>> THEN <<"">>
    ELSE items[1] \o Flatten([i \in 1..(Len(items) - 1) |-> <<", ">> \o items[i + 1]])

\* result += f"{label}{value}\n"
Line(label, value) == <<label>> \o value \o <<"\n">>

\* if cond: result += lines
When(cond, lines) == IF cond THEN lines ELSE <<>>

\* datetime.fromtimestamp(ts).strftime("%Y-%m-%d %H:%M"), the local time zone being UTC
strftime(ts) ==
    CASE ts = 1700000000 -> "2023-11-14 22:13"
      [] ts = 1700003600 -> "2023-11-14 23:13"
      [] ts = 1700086400 -> "2023-11-15 22:13"

format_timestamp(ts) == IF ts # 0 THEN strftime(ts) ELSE "Not set"

\* f"{t.get('name', 'Unknown')} <{t.get('address', 'unknown')}>"
Address(t) == <<Get(t, "name", "Unknown"), " <", Get(t, "address", "unknown"), ">">>

\* [a.get('name', 'Unknown') for a in l]
NamesOf(l) == [i \in 1..Len(l) |-> <<Get(l[i], "name", "Unknown")>>]

\* [f"{t.get('name', 'Unknown')} <{t.get('address', 'unknown')}>" for t in l]
AddressesOf(l) == [i \in 1..Len(l) |-> Address(l[i])]

RECURSIVE re_sub_tags(_)
\* re.sub('<[^<]+?>', '', s): left to right, each '<' followed by one or more
\* characters other than '<' up to the nearest '>' after them is removed
re_sub_tags(s) ==
    LET opens == {i \in 1..Len(s) : s[i] = "<"} IN
    IF opens = {} THEN s
    ELSE LET i == CHOOSE i \in opens : \A m \in opens : i <= m
             ends == {j \in (i + 2)..Len(s) :
                        /\ s[j] = ">"
                        /\ \A k \in (i + 1)..(j - 1) : s[k] # "<"}
         IN  IF ends = {}
             THEN SubSeq(s, 1, i) \o re_sub_tags(SubSeq(s, i + 1, Len(s)))
             ELSE LET j == CHOOSE j \in ends : \A m \in ends : j <= m
                  IN  SubSeq(s, 1, i - 1) \o re_sub_tags(SubSeq(s, j + 1, Len(s)))

\* the answers of the model
BareEntity == [id |-> "i1"]

FullConversation ==
    [id |-> "i1", latest_message_subject |-> "Hello",
     authors |-> <<[name |-> "Ann"], [address |-> "raj@example.com"]>>,
     assignee_names |-> "Bob", tasks_count |-> 2,
     team |-> [name |-> "Sales"], organization |-> [name |-> "Acme"],
     messages_count |-> 3, completed_tasks_count |-> 1,
     attachments_count |-> 1, drafts_count |-> 1,
     users |-> <<[assigned |-> TRUE, closed |-> FALSE, archived |-> FALSE,
                  flagged |-> TRUE, snoozed |-> FALSE, trashed |-> FALSE,
                  junked |-> FALSE]>>,
     shared_label_names |-> "vip", last_activity_at |-> 1700000000,
     web_url |-> "https://mail.missiveapp.com/#inbox/conversations/i1"]

\* "<p>Hello <b>world</b></p>"
ExampleBody ==
    <<"<", "p", ">", "H", "e", "l", "l", "o", " ", "<", "b", ">", "w", "o", "r", "l", "d",
      "<", "/", "b", ">", "<", "/", "p", ">">>

\* "<p>" + "x" * n + "</p>"
ParagraphOf(n) == <<"<", "p", ">">> \o [i \in 1..n |-> "x"] \o <<"<", "/", "p", ">">>

LongBody == ParagraphOf(BodyMax + 1)
ExactBody == ParagraphOf(BodyMax)

FullMessage(body) ==
    [id |-> "i1", subject |-> "Hello", type |-> "email",
     from_field |-> [name |-> "Ann", address |-> "ann@example.com"],
     to_fields |-> <<[name |-> "Bob", address |-> "bob@example.com"],
                     [address |-> "raj@example.com"]>>,
     cc_fields |-> <<[name |-> "Eve", address |-> "eve@example.com"]>>,
     delivered_at |-> 1700003600, created_at |-> 1700000000,
     preview |-> [i \in 1..(PreviewMax + 1) |-> "p"],
     body |-> body,
     attachments |-> <<[filename |-> "a.png", size |-> 10, media_type |-> "image",
                        sub_type |-> "png", width |-> 4, height |-> 3],
                       [filename |-> "b.txt"]>>,
     conversation |-> [id |-> "c1", latest_message_subject |-> "Hello",
                       team |-> [name |-> "Sales"], organization |-> [name |-> "Acme"]]]

FullComment ==
    [id |-> "i1", body |-> "Looks good",
     author |-> [name |-> "Ann", email |-> "ann@example.com"],
     created_at |-> 1700000000,
     task |-> [description |-> "Call back", state |-> "todo", due_at |-> 1700086400,
               assignees |-> <<[name |-> "Bob"]>>],
     attachment |-> [filename |-> "a.png"]]

FullTask ==
    [id |-> "i1", title |-> "Call back", description |-> "About the offer",
     state |-> "todo", due_at |-> 1700086400, assignees |-> <<"u1", "u2">>,
     team |-> "t1", conversation |-> "c1"]

\* the entity or entities of an answer that is a JSON object holding them
Conversations(body) ==
    CASE body = "object_items" -> <<BareEntity>>
      [] body = "object_full" -> <<FullConversation>>
      [] body = "object_six" -> [i \in 1..(ListCap + 1) |-> BareEntity]

Messages(body) ==
    CASE body = "object_items" -> <<BareEntity>>
      [] body = "object_full" -> <<FullMessage(ExampleBody), BareEntity>>

Message(body) ==
    CASE body = "object_empty" -> EmptyDict
      [] body = "object_items" -> BareEntity
      [] body = "object_full" -> FullMessage(ExampleBody)
      [] body = "object_long" -> FullMessage(LongBody)
      [] body = "object_exact" -> FullMessage(ExactBody)

Comments(body) ==
    CASE body = "object_items" -> <<BareEntity>>
      [] body = "object_full" -> <<FullComment, BareEntity>>

Task(body) ==
    CASE body = "object_empty" -> EmptyDict
      [] body = "object_items" -> BareEntity
      [] body = "object_full" -> FullTask

\* str.title() on the valid mailbox names
Title(mailbox) ==
    CASE mailbox = "inbox" -> "Inbox"
      [] mailbox = "all" -> "All"
      [] mailbox = "assigned" -> "Assigned"
      [] mailbox = "closed" -> "Closed"
      [] mailbox = "flagged" -> "Flagged"
      [] mailbox = "trashed" -> "Trashed"
      [] mailbox = "junked" -> "Junked"
      [] mailbox = "snoozed" -> "Snoozed"

\* the loop body of get_conversations
get_conversations_item(conv) ==
    <<"- ", Get(conv, "latest_message_subject", "No subject"), "\n">>
    \o <<"  ", "From: ">> \o Join(NamesOf(Get(conv, "authors", <<>>))) \o <<"\n\n">>

get_conversations_format(P, body) ==
    CASE body = "array" -> Raise(ListAttributeError)
      [] body = "object_empty" -> Return(<<"No conversations found in your Missive inbox">>)
      [] body = "object_bad" -> Raise(StrAttributeError)
      [] OTHER ->
           LET conversations == Conversations(body)
               shown == SubSeq(conversations, 1, Min(Len(conversations), ListCap))
           IN  Return(<<"Recent Missive Conversations:\n\n">>
                      \o Flatten([i \in 1..Len(shown) |-> get_conversations_item(shown[i])]))

\* the loop body of get_conversations_filtered
get_conversations_filtered_item(conv) ==
    LET assignees == Get(conv, "assignee_names", "Unassigned")
        tasks_count == Get(conv, "tasks_count", 0)
    IN  <<"- ", Get(conv, "latest_message_subject", "No subject"), "\n">>
        \o <<"  ">> \o Line("From: ", Join(NamesOf(Get(conv, "authors", <<>>))))
        \o When(assignees # "", <<"  ">> \o Line("Assigned: ", <<assignees>>))
        \o When(tasks_count > 0, <<"  ">> \o Line("Tasks: ", <<ToString(tasks_count)>>))
        \o <<"  ", "ID: ", Get(conv, "id", "None"), "\n\n">>

get_conversations_filtered_format(P, body) ==
    CASE body = "array" -> Raise(ListAttributeError)
      [] body = "object_empty" ->
           Return(<<"No conversations found in ", P.mailbox, " mailbox">>)
      [] body = "object_bad" -> Raise(StrAttributeError)
      [] OTHER ->
           LET conversations == Conversations(body)
           IN  Return(<<"Conversations from ", Title(P.mailbox), " (",
                        ToString(Len(conversations)), " found):\n\n">>
                      \o Flatten([i \in 1..Len(conversations) |->
                                    get_conversations_filtered_item(conversations[i])]))

\* the names of the flags of users[0] that are set, in the order they are tested
StatusOf(user) ==
    LET flags == <<"assigned", "closed", "archived", "flagged", "snoozed", "trashed", "junked">>
        IsSet(f) == Get(user, f, FALSE)
    IN  [i \in 1..Len(SelectSeq(flags, IsSet)) |-> <<SelectSeq(flags, IsSet)[i]>>]

get_conversation_details_format(P, body) ==
    CASE body = "array" -> Raise(ListAttributeError)
      [] body = "object_empty" -> Return(<<"Conversation ", P.conversation_id, " not found">>)
      [] body = "object_bad" -> Raise(StrAttributeError)
      [] OTHER ->
           LET conv == Conversations(body)[1]
               authors == Get(conv, "authors", <<>>)
               assignees == Get(conv, "assignee_names", "")
               team == Get(conv, "team", EmptyDict)
               org == Get(conv, "organization", EmptyDict)
               users == Get(conv, "users", <<>>)
               status == IF users # <<>> THEN StatusOf(users[1]) ELSE <<>>
               shared_labels == Get(conv, "shared_label_names", "")
               last_activity == Get(conv, "last_activity_at", 0)
           IN  Return(<<"Conversation Details:\n\n">>
                 \o Line("Subject: ", <<Get(conv, "latest_message_subject", "No subject")>>)
                 \o Line("ID: ", <<Get(conv, "id", "None")>>)
                 \o When(authors # <<>>, Line("Authors: ", Join(NamesOf(authors))))
                 \o When(assignees # "", Line("Assigned to: ", <<assignees>>))
                 \o When(DOMAIN team # {}, Line("Team: ", <<Get(team, "name", "None")>>))
                 \o When(DOMAIN org # {}, Line("Organization: ", <<Get(org, "name", "None")>>))
                 \o Line("Messages: ", <<ToString(Get(conv, "messages_count", 0))>>)
                 \o <<"Tasks: ", ToString(Get(conv, "tasks_count", 0)), " (",
                      ToString(Get(conv, "completed_tasks_count", 0)), " completed)\n">>
                 \o Line("Attachments: ", <<ToString(Get(conv, "attachments_count", 0))>>)
                 \o Line("Drafts: ", <<ToString(Get(conv, "drafts_count", 0))>>)
                 \o When(status # <<>>, Line("Status: ", Join(status)))
                 \o When(shared_labels # "", Line("Labels: ", <<shared_labels>>))
                 \o When(last_activity # 0,
                         Line("Last activity: ", <<format_timestamp(last_activity)>>))
                 \o <<"\n">> \o Line("Web URL: ", <<Get(conv, "web_url", "N/A")>>))

\* the lines for from_field and to_fields, which four handlers write alike;
\* indent is the text before the label, empty for a single entity
FromToLines(msg, indent) ==
    LET from_field == Get(msg, "from_field", EmptyDict)
        to_fields == Get(msg, "to_fields", <<>>)
    IN  When(DOMAIN from_field # {}, indent \o Line("From: ", Address(from_field)))
        \o When(to_fields # <<>>, indent \o Line("To: ", Join(AddressesOf(to_fields))))

\* f"{preview[:100]}{'...' if len(preview) > 100 else ''}"
Cut(s, n) == Slice(s, n) \o (IF Len(s) > n THEN <<"...">> ELSE <<>>)

PreviewLine(msg) ==
    LET preview == Get(msg, "preview", <<>>)
    IN  When(preview # <<>>, <<"   ">> \o Line("Preview: ", Cut(preview, PreviewMax)))

DeliveredLine(msg, indent) ==
    LET delivered_at == Get(msg, "delivered_at", 0)
    IN  When(delivered_at # 0,
             indent \o Line("Delivered: ", <<format_timestamp(delivered_at)>>))

\* the loop body of get_conversation_messages
get_conversation_messages_item(i, msg) ==
    LET attachments == Get(msg, "attachments", <<>>)
    IN  <<ToString(i), ". ", Get(msg, "subject", "No subject"), "\n">>
        \o FromToLines(msg, <<"   ">>)
        \o PreviewLine(msg)
        \o DeliveredLine(msg, <<"   ">>)
        \o When(attachments # <<>>,
                <<"   ", "Attachments: ", ToString(Len(attachments)), " file(s)\n">>)
        \o <<"   ", "Message ID: ", Get(msg, "id", "None"), "\n\n">>

get_conversation_messages_format(P, body) ==
    CASE body = "array" -> Raise(ListAttributeError)
      [] body = "object_empty" ->
           Return(<<"No messages found in conversation ", P.conversation_id>>)
      [] body = "object_bad" -> Raise(StrAttributeError)
      [] OTHER ->
           LET messages == Messages(body)
           IN  Return(<<"Messages in Conversation (", ToString(Len(messages)), " found):\n\n">>
                      \o Flatten([i \in 1..Len(messages) |->
                                    get_conversation_messages_item(i, messages[i])]))

\* the lines written for the task of a comment
CommentTaskLines(task) ==
    LET due_at == Get(task, "due_at", 0)
        assignees == Get(task, "assignees", <<>>)
    IN  <<"   ">> \o Line("Task: ", <<Get(task, "description", "No description")>>)
        \o <<"   ">> \o Line("Task State: ", <<Get(task, "state", "unknown")>>)
        \o When(due_at # 0, <<"   ">> \o Line("Due: ", <<format_timestamp(due_at)>>))
        \o When(assignees # <<>>,
                <<"   ">> \o Line("Assigned to: ", Join(NamesOf(assignees))))

\* the loop body of get_conversation_comments
get_conversation_comments_item(i, comment) ==
    LET author == Get(comment, "author", EmptyDict)
        created_at == Get(comment, "created_at", 0)
        task == Get(comment, "task", EmptyDict)
        attachment == Get(comment, "attachment", EmptyDict)
    IN  <<ToString(i), ". ", Get(comment, "body", "No content"), "\n">>
        \o When(DOMAIN author # {},
                <<"   ">> \o Line("By: ", <<Get(author, "name", "Unknown"), " <",
                                             Get(author, "email", "unknown"), ">">>))
        \o When(created_at # 0,
                <<"   ">> \o Line("Created: ", <<format_timestamp(created_at)>>))
        \o When(DOMAIN task # {}, CommentTaskLines(task))
        \o When(DOMAIN attachment # {},
                <<"   ">> \o Line("Attachment: ",
                                  <<Get(attachment, "filename", "Unknown file")>>))
        \o <<"   ", "Comment ID: ", Get(comment, "id", "None"), "\n\n">>

get_conversation_comments_format(P, body) ==
    CASE body = "array" -> Raise(ListAttributeError)
      [] body = "object_empty" ->
           Return(<<"No comments found in conversation ", P.conversation_id>>)
      [] body = "object_bad" -> Raise(StrAttributeError)
      [] OTHER ->
           LET comments == Comments(body)
           IN  Return(<<"Comments in Conversation (", ToString(Len(comments)), " found):\n\n">>
                      \o Flatten([i \in 1..Len(comments) |->
                                    get_conversation_comments_item(i, comments[i])]))

\* the lines both task tools write for the task of the answer
TaskLines(task) ==
    LET due_at == Get(task, "due_at", 0)
        assignees == Get(task, "assignees", <<>>)
        team == Get(task, "team", "")
    IN  Line("Title: ", <<Get(task, "title", "Unknown")>>)
        \o Line("Description: ", <<Get(task, "description", "No description")>>)
        \o Line("State: ", <<Get(task, "state", "unknown")>>)
        \o Line("Task ID: ", <<Get(task, "id", "None")>>)
        \o When(due_at # 0, Line("Due: ", <<format_timestamp(due_at)>>))
        \o When(assignees # <<>>,
                Line("Assignees: ", Join([i \in 1..Len(assignees) |-> <<assignees[i]>>])))
        \o When(team # "", Line("Team: ", <<team>>))

create_task_format(P, body) ==
    CASE body = "array" -> Raise(ListAttributeError)
      [] body = "object_bad" -> Raise(StrAttributeError)
      [] OTHER ->
           LET task == Task(body)
               conversation == Get(task, "conversation", "")
           IN  Return(<<"Task Created Successfully!\n\n">> \o TaskLines(task)
                      \o When(conversation # "", Line("Conversation: ", <<conversation>>)))

update_task_format(P, body) ==
    CASE body = "array" -> Raise(ListAttributeError)
      [] body = "object_bad" -> Raise(StrAttributeError)
      [] OTHER -> Return(<<"Task Updated Successfully!\n\n">> \o TaskLines(Task(body)))

\* the three lines both single-message tools write first
MessageLines(message) ==
    Line("Subject: ", <<Get(message, "subject", "No subject")>>)
    \o Line("Type: ", <<Get(message, "type", "unknown")>>)
    \o Line("Message ID: ", <<Get(message, "id", "None")>>)

\* the body with its tags removed, then cut, but cut before the tags are removed
BodyLine_cut_first(message) ==
    LET body == Get(message, "body", <<>>)
        clean_body == re_sub_tags(Slice(body, BodyMax))
    IN  When(body # <<>>, Line("Body: ", Cut(clean_body, BodyMax)))

\* the body with its tags removed, then cut
BodyLine(message) ==
    LET body == Get(message, "body", <<>>)
        clean_body == re_sub_tags(body)
    IN  When(body # <<>>, Line("Body: ", Cut(clean_body, BodyMax)))

\* the lines written for one attachment of a message
AttachmentLines(att) ==
    <<"  - ", Get(att, "filename", "Unknown"), " (", ToString(Get(att, "size", 0)),
      " bytes)\n">>
    \o <<"    ">> \o Line("Type: ", <<Get(att, "media_type", "unknown"), "/",
                                      Get(att, "sub_type", "unknown")>>)
    \o When(Get(att, "width", 0) # 0 /\ Get(att, "height", 0) # 0,
            <<"    ">> \o Line("Dimensions: ", <<ToString(Get(att, "width", 0)), "x",
                                                 ToString(Get(att, "height", 0))>>))

\* the lines written for the conversation of a message
MessageConversationLines(conversation) ==
    LET team == Get(conversation, "team", EmptyDict)
        org == Get(conversation, "organization", EmptyDict)
    IN  <<"\n">>
        \o Line("Conversation: ", <<Get(conversation, "latest_message_subject", "No subject")>>)
        \o Line("Conversation ID: ", <<Get(conversation, "id", "None")>>)
        \o When(DOMAIN team # {}, Line("Team: ", <<Get(team, "name", "None")>>))
        \o When(DOMAIN org # {}, Line("Organization: ", <<Get(org, "name", "None")>>))

get_message_details_format(P, body) ==
    CASE body = "array" -> Raise(ListAttributeError)
      [] body = "object_empty" -> Return(<<"Message ", P.message_id, " not found">>)
      [] body = "object_bad" -> Raise(StrAttributeError)
      [] OTHER ->
           LET message == Message(body)
               cc_fields == Get(message, "cc_fields", <<>>)
               created_at == Get(message, "created_at", 0)
               preview == Get(message, "preview", <<>>)
               attachments == Get(message, "attachments", <<>>)
               conversation == Get(message, "conversation", EmptyDict)
           IN  Return(<<"Message Details:\n\n">> \o MessageLines(message)
                 \o FromToLines(message, <<>>)
                 \o When(cc_fields # <<>>, Line("CC: ", Join(AddressesOf(cc_fields))))
                 \o DeliveredLine(message, <<>>)
                 \o When(created_at # 0, Line("Created: ", <<format_timestamp(created_at)>>))
                 \o When(preview # <<>>, Line("Preview: ", preview))
                 \o BodyLine(message)
                 \o When(attachments # <<>>,
                         <<"\nAttachments (", ToString(Len(attachments)), "):\n">>
                         \o Flatten([i \in 1..Len(attachments) |->
                                       AttachmentLines(attachments[i])]))
                 \o When(DOMAIN conversation # {}, MessageConversationLines(conversation)))

\* the loop body of search_messages_by_email_id
search_messages_by_email_id_item(i, message) ==
    <<ToString(i), ". ", Get(message, "subject", "No subject"), "\n">>
    \o FromToLines(message, <<"   ">>)
    \o PreviewLine(message)
    \o DeliveredLine(message, <<"   ">>)
    \o <<"   ">> \o Line("Type: ", <<Get(message, "type", "unknown")>>)
    \o <<"   ", "Message ID: ", Get(message, "id", "None"), "\n\n">>

search_messages_by_email_id_format(P, body) ==
    CASE body = "array" -> Raise(ListAttributeError)
      [] body = "object_empty" ->
           Return(<<"No messages found with email Message-ID: ", P.email_message_id>>)
      [] body = "object_bad" -> Raise(StrAttributeError)
      [] OTHER ->
           LET messages == Messages(body)
           IN  Return(<<"Messages found for Message-ID '", P.email_message_id,
                        "' (", ToString(Len(messages)), " found):\n\n">>
                      \o Flatten([i \in 1..Len(messages) |->
                                    search_messages_by_email_id_item(i, messages[i])]))

create_custom_message_format(P, body) ==
    CASE body = "array" -> Raise(ListAttributeError)
      [] body = "object_bad" -> Raise(StrAttributeError)
      [] OTHER ->
           LET message == Message(body)
           IN  Return(<<"Message Created Successfully!\n\n">> \o MessageLines(message)
                      \o FromToLines(message, <<>>)
                      \o DeliveredLine(message, <<>>))

format(call, body) ==
    CASE call.tool = "get_conversations" -> get_conversations_format(call, body)
      [] call.tool = "get_conversations_filtered" -> get_conversations_filtered_format(call, body)
      [] call.tool = "get_conversation_details" -> get_conversation_details_format(call, body)
      [] call.tool = "get_conversation_messages" -> get_conversation_messages_format(call, body)
      [] call.tool = "get_conversation_comments" -> get_conversation_comments_format(call, body)
      [] call.tool = "create_task" -> create_task_format(call, body)
      [] call.tool = "update_task" -> update_task_format(call, body)
      [] call.tool = "get_message_details" -> get_message_details_format(call, body)
      [] call.tool = "search_messages_by_email_id" -> search_messages_by_email_id_format(call, body)
      [] call.tool = "create_custom_message" -> create_custom_message_format(call, body)

\* response.raise_for_status(): a status outside 2xx raises
raise_for_status(code) == IF code \in 200..299 THEN None ELSE Some(StatusExc(code))

\* the request block without its raise_for_status line: an error answer, whose
\* JSON object lacks the key the handler reads, goes on to the formatting
try_block_nostatus(call, o) ==
    IF o.kind = "transport"
    THEN Raise(Exc("ConnectError", "All connection attempts failed"))
    ELSE IF o.body = "unparseable"
    THEN Raise(Exc("JSONDecodeError", "Expecting value: line 1 column 1 (char 0)"))
    ELSE format(call, IF o.body = "none" THEN "object_empty" ELSE o.body)

\* the body of the request block: the awaited call, raise_for_status,
\* response.json() and the formatting
try_block(call, o) ==
    IF o.kind = "transport"
    THEN Raise(Exc("ConnectError", "All connection attempts failed"))
    ELSE IF raise_for_status(o.status) # None
    THEN Raise(raise_for_status(o.status)[1])
    ELSE IF o.body = "unparseable"
    THEN Raise(Exc("JSONDecodeError", "Expecting value: line 1 column 1 (char 0)"))
    ELSE format(call, o.body)

\* the request block with its except clauses
handle_response(call, o) ==
    LET r == try_block(call, o) IN
    IF r.kind = "raise" THEN except_clauses(call, r.exc) ELSE r

\* the handler up to its first await
prepare(call, e) ==
    CASE call.tool = "get_conversations" -> get_conversations_prepare(call, e)
      [] call.tool = "get_conversations_filtered" -> get_conversations_filtered_prepare(call, e)
      [] call.tool = "get_conversation_details" -> get_conversation_details_prepare(call, e)
      [] call.tool = "get_conversation_messages" -> get_conversation_messages_prepare(call, e)
      [] call.tool = "get_conversation_comments" -> get_conversation_comments_prepare(call, e)
      [] call.tool = "create_task" -> create_task_prepare(call, e)
      [] call.tool = "update_task" -> update_task_prepare(call, e)
      [] call.tool = "get_message_details" -> get_message_details_prepare(call, e)
      [] call.tool = "search_messages_by_email_id" -> search_messages_by_email_id_prepare(call, e)
      [] call.tool = "create_custom_message" -> create_custom_message_prepare(call, e)

----------------------------------------------------------------------------
(* The inputs of the model *)

EnvValues == {None, Some(""), Some("tok1"), Some("tok2")}

LimitValues ==
    {a + d : a \in {0, MessagesMaxLimit, CommentsMaxLimit, ConversationsMaxLimit},
             d \in (0 - LimitSpread)..LimitSpread}
MailboxValues == Mailboxes \cup {"archived", "Inbox"}
OptIds(id) == {None, Some(""), Some(id)}
OptLists(id) == {None, Some(<<>>), Some(<<id>>)}
OptInts == {None, Some(0), Some(1700000000)}
ConversationIds == {"c1", "c2"}

ShortTitle == <<"T">>
LongTitle == [i \in 1..(TitleMax + 1) |-> "x"]
ShortDescription == <<"d">>
LongDescription == [i \in 1..(DescriptionMax + 1) |-> "y"]

CreateTaskCalls ==
    [tool : {"create_task"}, title : {ShortTitle}, description : {<<>>},
     organization_id : {None, Some("o1")}, team_id : OptIds("t1"),
     assignee_ids : OptLists("u1"), due_date_timestamp : OptInts,
     conversation_id : OptIds("c1"), is_subtask : BOOLEAN]
    \cup
    [tool : {"create_task"}, title : {ShortTitle, LongTitle},
     description : {ShortDescription, LongDescription},
     organization_id : {None}, team_id : {Some("t1")},
     assignee_ids : {None}, due_date_timestamp : {None},
     conversation_id : {None}, is_subtask : {FALSE}]

UpdateTaskCalls ==
    [tool : {"update_task"}, task_id : {"k1"}, title : {None, Some(ShortTitle)},
     description : {None, Some(ShortDescription)},
     state : {None, Some("todo"), Some("in_progress"), Some("closed"), Some("done")},
     assignee_ids : OptLists("u1"), team_id : OptIds("t1"), due_date_timestamp : OptInts]
    \cup
    [tool : {"update_task"}, task_id : {"k2"}, title : {Some(<<>>), Some(LongTitle)},
     description : {None, Some(LongDescription)},
     state : {None}, assignee_ids : {None}, team_id : {None}, due_date_timestamp : {None}]

Calls ==
    [tool : {"get_conversations"}]
    \cup [tool : {"get_conversations_filtered"}, mailbox : MailboxValues,
          limit : LimitValues, team_id : OptIds("t1")]
    \cup [tool : {"get_conversation_details"}, conversation_id : ConversationIds]
    \cup [tool : {"get_conversation_messages"}, conversation_id : ConversationIds,
          limit : LimitValues]
    \cup [tool : {"get_conversation_comments"}, conversation_id : ConversationIds,
          limit : LimitValues]
    \cup CreateTaskCalls
    \cup UpdateTaskCalls
    \cup [tool : {"get_message_details"}, message_id : {"m1", "m2"}]
    \cup [tool : {"search_messages_by_email_id"}, email_message_id : {"<a@x>", "<b@x>"}]
    \cup [tool : {"create_custom_message"}, account_id : {"a1"}, body : {"<p>Hi</p>"},
          from_field_data : {FromJson, "null", FromCut, "", DeepJson},
          to_fields_data : {ToJson, ToCut, "not json", DeepJson},
          subject : {None, Some(""), Some("Hello")}, conversation_id : OptIds("c1")]

Tools == {c.tool : c \in Calls}

StatusCodes == {200, 400, 401, 404, 500}

\* what the remote end does with a request.  applied tells whether the remote
\* platform carried the request out: it did when it answers 2xx, it did not
\* when it answers an error status, and either is possible when the transport
\* fails, since the failure may come before the request arrives or after it
\* was served.
Outcomes(tool) ==
    {[kind |-> "transport", status |-> 0, body |-> "none", applied |-> a] : a \in BOOLEAN}
    \cup {[kind |-> "response", status |-> c, body |-> "none", applied |-> FALSE] :
            c \in {c \in StatusCodes : raise_for_status(c) # None}}
    \cup {[kind |-> "response", status |-> c, body |-> b, applied |-> TRUE] :
            c \in {c \in StatusCodes : raise_for_status(c) = None}, b \in BodiesOf(tool)}

----------------------------------------------------------------------------
(* The state machine *)

\* the invocation slots of the sequential specification
Procs == {1}

NoCall == [tool |-> "none"]

Idle ==
    [pc |-> "idle",         \* idle, opened, awaiting, closing, done
     call |-> NoCall,       \* the tool and its parameters
     seen |-> None,         \* the credential as os.getenv returned it
     built |-> <<>>,        \* the request the handler built, not yet sent
     reqs |-> <<>>,         \* the requests sent, in order
     outcome |-> <<>>,      \* what the remote end answered
     client |-> "none",     \* the httpx.AsyncClient: none, open, closed
     result |-> <<>>,       \* the text returned
     raised |-> <<>>]       \* the exception that left the handler

Init ==
    /\ env \in EnvValues
    /\ inv = [p \in Procs |-> Idle]

\* the environment sets, changes or unsets MISSIVE_API_TOKEN
SetEnv(v) ==
    /\ v # env
    /\ env' = v
    /\ UNCHANGED inv

\* a handler that takes the credential from a module-level variable which an
\* invocation still in flight has filled, and looks it up only when there is none
Invoke_cached(p, call) ==
    /\ inv[p].pc = "idle"
    /\ LET cached == {q \in DOMAIN inv : TruthyStr(inv[q].seen)}
           e == IF cached # {} THEN inv[CHOOSE q \in cached : TRUE].seen ELSE env
           r == prepare(call, e)
       IN  inv' = [inv EXCEPT ![p] =
                 IF r.kind = "request"
                 THEN [Idle EXCEPT !.pc = "opened", !.call = call, !.seen = e,
                                   !.built = <<r.req>>, !.client = "open"]
                 ELSE IF r.kind = "return"
                 THEN [Idle EXCEPT !.pc = "done", !.call = call, !.seen = e,
                                   !.result = r.text]
                 ELSE [Idle EXCEPT !.pc = "done", !.call = call, !.seen = e,
                                   !.raised = <<r.exc>>]]
    /\ UNCHANGED env

\* the host calls a tool: the handler runs to its first await or to its return
Invoke(p, call) ==
    /\ inv[p].pc = "idle"
    /\ LET r == prepare(call, env) IN
       inv' = [inv EXCEPT ![p] =
                 IF r.kind = "request"
                 THEN [Idle EXCEPT !.pc = "opened", !.call = call, !.seen = env,
                                   !.built = <<r.req>>, !.client = "open"]
                 ELSE IF r.kind = "return"
                 THEN [Idle EXCEPT !.pc = "done", !.call = call, !.seen = env,
                                   !.result = r.text]
                 ELSE [Idle EXCEPT !.pc = "done", !.call = call, !.seen = env,
                                   !.raised = <<r.exc>>]]
    /\ UNCHANGED env

\* await client.get / post / patch: the request leaves
Send(p) ==
    /\ inv[p].pc = "opened"
    /\ inv' = [inv EXCEPT ![p].pc = "awaiting",
                          ![p].reqs = Append(@, inv[p].built[1]),
                          ![p].built = <<>>]
    /\ UNCHANGED env

\* a handler whose parameters live in a module-level variable: the rest of the
\* request block runs with the parameters of the invocation that wrote it last
Respond_shared(p, o) ==
    /\ inv[p].pc = "awaiting"
    /\ LET others == {q \in DOMAIN inv : q # p /\ inv[q].pc # "idle"}
           c == IF others # {} THEN inv[CHOOSE q \in others : TRUE].call ELSE inv[p].call
           r == handle_response(c, o)
       IN  inv' = [inv EXCEPT ![p].pc = "closing",
                              ![p].outcome = <<o>>,
                              ![p].result = IF r.kind = "return" THEN r.text ELSE <<>>,
                              ![p].raised = IF r.kind = "raise" THEN <<r.exc>> ELSE <<>>]
    /\ UNCHANGED env

\* a handler that sends its request once more after a failure
Respond_retry(p, o) ==
    /\ inv[p].pc = "awaiting"
    /\ LET r == handle_response(inv[p].call, o) IN
       IF (o.kind = "transport" \/ raise_for_status(o.status) # None) /\ Len(inv[p].reqs) < 2
       THEN inv' = [inv EXCEPT ![p].pc = "opened",
                               ![p].outcome = <<o>>,
                               ![p].built = <<inv[p].reqs[1]>>]
       ELSE inv' = [inv EXCEPT ![p].pc = "closing",
                               ![p].outcome = <<o>>,
                               ![p].result = IF r.kind = "return" THEN r.text ELSE <<>>,
                               ![p].raised = IF r.kind = "raise" THEN <<r.exc>> ELSE <<>>]
    /\ UNCHANGED env

\* the remote end answers or the transport fails; the handler runs the rest
\* of the request block and its except clauses
Respond(p, o) ==
    /\ inv[p].pc = "awaiting"
    /\ LET r == handle_response(inv[p].call, o) IN
       inv' = [inv EXCEPT ![p].pc = "closing",
                          ![p].outcome = <<o>>,
                          ![p].result = IF r.kind = "return" THEN r.text ELSE <<>>,
                          ![p].raised = IF r.kind = "raise" THEN <<r.exc>> ELSE <<>>]
    /\ UNCHANGED env

\* a client made without the async with block: returning leaves it open
Close_leak(p) ==
    /\ inv[p].pc = "closing"
    /\ inv' = [inv EXCEPT ![p].pc = "done"]
    /\ UNCHANGED env

\* the async with block is left: the client is closed and the handler returns
Close(p) ==
    /\ inv[p].pc = "closing"
    /\ inv' = [inv EXCEPT ![p].pc = "done", ![p].client = "closed"]
    /\ UNCHANGED env

\* the host has taken the result; the slot is free for the next call
Finish(p) ==
    /\ inv[p].pc = "done"
    /\ inv' = [inv EXCEPT ![p] = Idle]
    /\ UNCHANGED env

Next ==
    \/ \E v \in EnvValues : SetEnv(v)
    \/ \E p \in DOMAIN inv, call \in Calls : Invoke(p, call)
    \/ \E p \in DOMAIN inv : Send(p)
    \/ \E p \in DOMAIN inv : \E o \in Outcomes(inv[p].call.tool) : Respond(p, o)
    \/ \E p \in DOMAIN inv : Close(p)
    \/ \E p \in DOMAIN inv : Finish(p)

Spec == Init /\ [][Next]_vars

----------------------------------------------------------------------------
(* Concurrent invocations *)

(* The host runs the handlers as coroutines on one event loop: a handler    *)
(* runs without interruption from one await to the next, and the steps of   *)
(* several invocations interleave at the awaits.  The actions are those of  *)
(* the sequential specification, over several invocation slots and a        *)
(* smaller set of calls and answers.                                        *)
NumProcs == 2

ConcProcs == 1..NumProcs

ConcCalls ==
    [tool : {"get_conversation_details"}, conversation_id : ConversationIds]
    \cup [tool : {"create_task"}, title : {ShortTitle}, description : {<<>>},
          organization_id : {None}, team_id : {Some("t1")}, assignee_ids : {None},
          due_date_timestamp : {None}, conversation_id : {None}, is_subtask : {FALSE}]

ConcOutcomes ==
    {o \in Outcomes("none") : /\ o.kind = "response"
                              /\ \/ o.status = 404
                                 \/ o.status = 200 /\ o.body = "object_items"}

InitConc ==
    /\ env \in EnvValues
    /\ inv = [p \in ConcProcs |-> Idle]

NextConc ==
    \/ \E v \in EnvValues : SetEnv(v)
    \/ \E p \in DOMAIN inv, call \in ConcCalls : Invoke(p, call)
    \/ \E p \in DOMAIN inv : Send(p)
    \/ \E p \in DOMAIN inv, o \in ConcOutcomes : Respond(p, o)
    \/ \E p \in DOMAIN inv : Close(p)
    \/ \E p \in DOMAIN inv : Finish(p)

SpecConc == InitConc /\ [][NextConc]_vars

----------------------------------------------------------------------------
(* Vocabulary of the properties *)

Active(p) == inv[p].pc # "idle"

\* the credential was present when the handler looked it up
HadToken(p) == TruthyStr(inv[p].seen)

\* the requests the invocation has built or sent
Reqs(p) == inv[p].reqs \o inv[p].built

\* the invocation has returned without building or sending a request and
\* without opening a client
NoNetwork(p) ==
    /\ inv[p].pc = "done"
    /\ Reqs(p) = <<>>
    /\ inv[p].client = "none"
    /\ inv[p].outcome = <<>>

Answered(p, code) ==
    /\ inv[p].outcome # <<>>
    /\ inv[p].outcome[1].kind = "response"
    /\ inv[p].outcome[1].status = code

MissingTokenText == <<"Error: ", "MISSIVE_API_TOKEN not set in environment">>

----------------------------------------------------------------------------
(* C1 *)

\* C1: in every handler, when MISSIVE_API_TOKEN is unset or empty at the call,
\* the handler has returned the credential error text at once, whatever its
\* other parameters, and no request was built or sent and no client opened.
C1_MissingTokenShortCircuits ==
    \A p \in DOMAIN inv :
        (Active(p) /\ ~HadToken(p)) =>
            /\ NoNetwork(p)
            /\ inv[p].result = MissingTokenText
            /\ inv[p].raised = <<>>

\* a call with an unknown mailbox, made without credential
C1_Witness ==
    \E p \in DOMAIN inv :
        /\ inv[p].pc = "done"
        /\ inv[p].seen \in {None, Some("")}
        /\ inv[p].call.tool = "get_conversations_filtered"
        /\ inv[p].call.mailbox \notin Mailboxes
        /\ inv[p].result = MissingTokenText

----------------------------------------------------------------------------
(* C2 *)

\* C2: every invocation that has come to its end has a text to return and no
\* exception has left the handler, on every path: missing credential,
\* validation failure, 2xx answer, HTTP error status, transport failure, body
\* that is not JSON or has an unexpected shape.
C2_AlwaysReturnsText ==
    \A p \in DOMAIN inv :
        /\ inv[p].raised = <<>>
        /\ inv[p].pc \in {"closing", "done"} => Len(inv[p].result) > 0

----------------------------------------------------------------------------
(* C3 *)

\* C3: when the remote API answers 401, the text returned is the same fixed
\* unauthorized message in every tool, whatever the parameters.
C3_UnauthorizedIsFixed ==
    \A p \in DOMAIN inv :
        Answered(p, 401) =>
            inv[p].result =
              <<"Error: Invalid Missive API token. Please check your token in Claude Desktop config.">>

C3_Witness ==
    \E p \in DOMAIN inv :
        /\ Answered(p, 401)
        /\ inv[p].call.tool = "create_task"
        /\ inv[p].pc = "done"

----------------------------------------------------------------------------
(* C4 *)

\* the tools whose request addresses something by an id of the caller
IdTools ==
    {"get_conversation_details", "get_conversation_messages", "get_conversation_comments",
     "update_task", "get_message_details", "search_messages_by_email_id"}

\* the id a call asks for
RequestedId(call) ==
    CASE call.tool \in {"get_conversation_details", "get_conversation_messages",
                        "get_conversation_comments"} -> Some(call.conversation_id)
      [] call.tool = "update_task" -> Some(call.task_id)
      [] call.tool = "get_message_details" -> Some(call.message_id)
      [] call.tool = "search_messages_by_email_id" -> Some(call.email_message_id)
      [] OTHER -> None

\* the text names the id: the id is one of its pieces
Names(text, id) == \E i \in DOMAIN text : text[i] = id

\* the text reports the numeric status code
ReportsStatus(text, code) ==
    /\ Len(text) = 2
    /\ text[2] = ToString(code)

\* every id the caller passed, for the tools that address nothing by id
OtherIds(call) ==
    LET Given(o) == IF TruthyStr(o) THEN {o[1]} ELSE {} IN
    CASE call.tool = "get_conversations_filtered" -> Given(call.team_id)
      [] call.tool = "create_task" ->
           Given(call.organization_id) \cup Given(call.team_id)
           \cup Given(call.conversation_id)
           \cup (IF call.assignee_ids = None THEN {}
                 ELSE {call.assignee_ids[1][i] : i \in DOMAIN call.assignee_ids[1]})
      [] call.tool = "create_custom_message" ->
           {call.account_id} \cup Given(call.conversation_id)
      [] OTHER -> {}

\* C4 as stated: when the remote API answers 404, every tool returns a
\* not-found text that names the id the caller requested.
C4_Original ==
    \A p \in DOMAIN inv :
        Answered(p, 404) =>
            /\ \E id \in (IF RequestedId(inv[p].call) # None
                          THEN {RequestedId(inv[p].call)[1]}
                          ELSE OtherIds(inv[p].call)) : Names(inv[p].result, id)
            /\ ~ReportsStatus(inv[p].result, 404)

\* C4 amended: when the remote API answers 404, the six tools that take the id
\* of what they read or update return a not-found text that names that id; the
\* other four (get_conversations, get_conversations_filtered, create_task,
\* create_custom_message) return their generic text with the status code 404.
C4_NotFoundNamesIdWhereThereIsOne ==
    \A p \in DOMAIN inv :
        Answered(p, 404) =>
            IF inv[p].call.tool \in IdTools
            THEN /\ Names(inv[p].result, RequestedId(inv[p].call)[1])
                 /\ ~ReportsStatus(inv[p].result, 404)
            ELSE ReportsStatus(inv[p].result, 404)

C4_Witness ==
    \E p \in DOMAIN inv :
        /\ Answered(p, 404)
        /\ inv[p].call.tool = "get_conversation_details"
        /\ inv[p].call.conversation_id = "c2"
        /\ Names(inv[p].result, "c2")

----------------------------------------------------------------------------
(* C5 *)

ValidOptionsPiece ==
    "'. Valid options: inbox, all, assigned, closed, flagged, trashed, junked, snoozed"

IsMailboxError(text, mailbox) ==
    text = <<"Error: Invalid mailbox '", mailbox, ValidOptionsPiece>>

\* C5 as stated: for every mailbox outside the eight, get_conversations_filtered
\* returns the validation error that lists the valid set and issues no
\* network call, whatever limit and team_id are.
C5_Original ==
    \A p \in DOMAIN inv :
        (/\ Active(p)
         /\ inv[p].call.tool = "get_conversations_filtered"
         /\ inv[p].call.mailbox \notin
              {"inbox", "all", "assigned", "closed", "flagged", "trashed", "junked", "snoozed"})
        => /\ NoNetwork(p)
           /\ IsMailboxError(inv[p].result, inv[p].call.mailbox)

\* C5 amended: for every mailbox outside the eight, get_conversations_filtered
\* issues no network call, whatever limit and team_id are, and, when the
\* credential is present, returns the validation error that lists the valid
\* set (without credential it returns the credential error).
C5_InvalidMailboxRejected ==
    \A p \in DOMAIN inv :
        (/\ Active(p)
         /\ inv[p].call.tool = "get_conversations_filtered"
         /\ inv[p].call.mailbox \notin
              {"inbox", "all", "assigned", "closed", "flagged", "trashed", "junked", "snoozed"})
        => /\ NoNetwork(p)
           /\ HadToken(p) => IsMailboxError(inv[p].result, inv[p].call.mailbox)
           /\ ~HadToken(p) => inv[p].result = MissingTokenText

C5_Witness ==
    \E p \in DOMAIN inv :
        /\ inv[p].pc = "done"
        /\ HadToken(p)
        /\ inv[p].call.tool = "get_conversations_filtered"
        /\ inv[p].call.mailbox = "archived"
        /\ inv[p].call.limit > 50
        /\ inv[p].call.team_id = Some("t1")
        /\ IsMailboxError(inv[p].result, "archived")

----------------------------------------------------------------------------
(* C6 *)

\* the maximum of the endpoint a tool reads, for the tools that take a limit
EndpointMax(tool) ==
    CASE tool = "get_conversations_filtered" -> 50
      [] tool \in {"get_conversation_messages", "get_conversation_comments"} -> 10

LimitTools ==
    {"get_conversations_filtered", "get_conversation_messages", "get_conversation_comments"}

\* C6: for every integer limit, each request of the three tools that take a
\* limit carries min(limit, maximum), which is never above the maximum (50 for
\* get_conversations_filtered, team-scoped or not; 10 for messages and
\* comments), and a call that has its credential (and a valid mailbox) is not
\* rejected whatever its limit: its request is built.
C6_LimitClamped ==
    \A p \in DOMAIN inv :
        (Active(p) /\ inv[p].call.tool \in LimitTools) =>
            LET c == inv[p].call
                max == EndpointMax(c.tool)
            IN  /\ \A i \in DOMAIN Reqs(p) :
                      /\ Reqs(p)[i].params.limit <= max
                      /\ c.limit > max => Reqs(p)[i].params.limit = max
                      /\ c.limit <= max => Reqs(p)[i].params.limit = c.limit
                /\ (/\ HadToken(p)
                    /\ c.tool = "get_conversations_filtered" => c.mailbox \in Mailboxes)
                   => Len(Reqs(p)) = 1

\* a limit above 50 sent as 50 on the team-scoped path
C6_Witness ==
    \E p \in DOMAIN inv :
        /\ inv[p].call.tool = "get_conversations_filtered"
        /\ inv[p].call.limit > 50
        /\ inv[p].call.mailbox = "closed"
        /\ TruthyStr(inv[p].call.team_id)
        /\ Len(inv[p].reqs) = 1
        /\ inv[p].reqs[1].params.limit = 50
        /\ "team_closed" \in DOMAIN inv[p].reqs[1].params

----------------------------------------------------------------------------
(* C7 *)

\* the conditional requirements of create_task
CreateTaskRequirements(c) ==
    \/ c.is_subtask /\ c.conversation_id \notin {None, Some("")}
    \/ ~c.is_subtask /\ (c.team_id \notin {None, Some("")}
                         \/ (c.assignee_ids # None /\ Len(c.assignee_ids[1]) >= 1))

\* C7: with a credential present, create_task builds and sends its POST
\* request if and only if (is_subtask and conversation_id is given) or (not
\* is_subtask and team_id or at least one assignee id is given); otherwise it
\* returns a validation error text and issues no network call.
C7_CreateTaskRequirements ==
    \A p \in DOMAIN inv :
        (Active(p) /\ inv[p].call.tool = "create_task" /\ HadToken(p)) =>
            IF CreateTaskRequirements(inv[p].call)
            THEN /\ Len(Reqs(p)) = 1
                 /\ Reqs(p)[1].method = "POST"
                 /\ inv[p].pc # "opened" => Len(inv[p].reqs) = 1
            ELSE /\ NoNetwork(p)
                 /\ inv[p].result \in
                      {<<"Error: conversation_id is required when creating a subtask">>,
                       <<"Error: Either team_id or assignee_ids is required for standalone tasks">>}

\* a subtask without conversation id was rejected although team_id was given
C7_Witness ==
    \E p \in DOMAIN inv :
        /\ inv[p].call.tool = "create_task"
        /\ HadToken(p)
        /\ inv[p].call.is_subtask
        /\ inv[p].call.conversation_id = None
        /\ inv[p].call.team_id = Some("t1")
        /\ inv[p].pc = "done"
        /\ inv[p].reqs = <<>>

----------------------------------------------------------------------------
(* C8 *)

NoFieldSet(c) ==
    /\ c.title = None
    /\ c.description = None
    /\ c.state = None
    /\ c.assignee_ids = None
    /\ c.team_id = None
    /\ c.due_date_timestamp = None

NoFieldsText == <<"Error: At least one field must be provided to update">>

\* no PATCH request carries an empty task payload
NoEmptyPatch(p) ==
    \A i \in DOMAIN Reqs(p) :
        Reqs(p)[i].method = "PATCH" => DOMAIN Reqs(p)[i].json[1].tasks # {}

\* C8 as stated: update_task called with none of its six fields set returns
\* the validation error and issues no network call; no PATCH request is sent
\* with an empty task payload.
C8_Original ==
    \A p \in DOMAIN inv :
        /\ (Active(p) /\ inv[p].call.tool = "update_task" /\ NoFieldSet(inv[p].call))
           => (NoNetwork(p) /\ inv[p].result = NoFieldsText)
        /\ NoEmptyPatch(p)

\* C8 amended: update_task called with none of its six fields set issues no
\* network call and, when the credential is present, returns the validation
\* error (without credential it returns the credential error); no PATCH
\* request is sent with an empty task payload.
C8_EmptyUpdateRejected ==
    \A p \in DOMAIN inv :
        /\ (Active(p) /\ inv[p].call.tool = "update_task" /\ NoFieldSet(inv[p].call))
           => /\ NoNetwork(p)
              /\ HadToken(p) => inv[p].result = NoFieldsText
              /\ ~HadToken(p) => inv[p].result = MissingTokenText
        /\ NoEmptyPatch(p)

C8_Witness ==
    \E p \in DOMAIN inv :
        /\ inv[p].call.tool = "update_task"
        /\ NoFieldSet(inv[p].call)
        /\ HadToken(p)
        /\ inv[p].pc = "done"
        /\ inv[p].result = NoFieldsText

----------------------------------------------------------------------------
(* C9 *)

\* the texts of the model that are syntactically valid JSON
ValidJson == {FromJson, ToJson, "null"}

IsJsonError(text) ==
    /\ Len(text) = 2
    /\ text[1] = "Error: Invalid JSON format in from_field_data or to_fields_data: "

\* every request of create_custom_message carries both descriptors parsed
SentParsed(p) ==
    \A i \in DOMAIN Reqs(p) :
        /\ inv[p].call.from_field_data \in ValidJson
        /\ inv[p].call.to_fields_data \in ValidJson
        /\ Reqs(p)[i].json[1].messages.from_field.t # "str"
        /\ Reqs(p)[i].json[1].messages.to_fields.t # "str"

\* C9: create_custom_message called (with its credential) with
\* from_field_data or to_fields_data that is not valid JSON returns the
\* malformed-input error text and issues no network call; a request is sent
\* only after both descriptors were parsed.
C9_MalformedJsonRejected ==
    \A p \in DOMAIN inv :
        (Active(p) /\ inv[p].call.tool = "create_custom_message" /\ HadToken(p)) =>
            /\ (inv[p].call.from_field_data \notin ValidJson
                \/ inv[p].call.to_fields_data \notin ValidJson)
               => (NoNetwork(p) /\ IsJsonError(inv[p].result))
            /\ SentParsed(p)

----------------------------------------------------------------------------
(* C10 *)

TeamKey(mailbox) ==
    CASE mailbox = "inbox" -> "team_inbox"
      [] mailbox = "closed" -> "team_closed"
      [] mailbox = "all" -> "team_all"

\* C10: every request of get_conversations_filtered carries exactly one filter
\* parameter next to limit: with a team_id and mailbox inbox, closed or all it
\* is team_inbox, team_closed or team_all set to the team id, without the
\* plain flag; for every other valid mailbox, or without team_id, it is the
\* plain mailbox flag set to "true", and the team id is not sent.
C10_OneFilterParameter ==
    \A p \in DOMAIN inv :
        inv[p].call.tool = "get_conversations_filtered" =>
            \A i \in DOMAIN Reqs(p) :
                LET c == inv[p].call
                    params == Reqs(p)[i].params
                IN  IF c.team_id \notin {None, Some("")} /\ c.mailbox \in {"inbox", "closed", "all"}
                    THEN /\ DOMAIN params = {"limit", TeamKey(c.mailbox)}
                         /\ params[TeamKey(c.mailbox)] = c.team_id[1]
                    ELSE /\ DOMAIN params = {"limit", c.mailbox}
                         /\ c.mailbox \in Mailboxes
                         /\ params[c.mailbox] = "true"

\* a team id given with a mailbox that has no team-scoped parameter
C10_Witness ==
    \E p \in DOMAIN inv :
        /\ inv[p].call.tool = "get_conversations_filtered"
        /\ inv[p].call.team_id = Some("t1")
        /\ inv[p].call.mailbox = "flagged"
        /\ Len(inv[p].reqs) = 1
        /\ DOMAIN inv[p].reqs[1].params = {"limit", "flagged"}

----------------------------------------------------------------------------
(* C11 *)

\* key k is in dict d exactly when cond holds, and then with value v
KeyIff(d, k, cond, v) ==
    IF cond THEN k \in DOMAIN d /\ d[k] = v ELSE k \notin DOMAIN d

\* t is s cut to at most n characters
CutTo(t, s, n) ==
    /\ Len(t) <= n
    /\ Len(s) <= n => t = s
    /\ Len(s) > n => t = SubSeq(s, 1, n)

\* the payload of create_task holds an optional field exactly when it was provided
CreateTaskOnlyProvided(c, d) ==
    /\ "description" \in DOMAIN d <=> c.description # <<>>
    /\ "organization" \in DOMAIN d <=> TruthyStr(c.organization_id)
    /\ "team" \in DOMAIN d <=> TruthyStr(c.team_id)
    /\ "assignees" \in DOMAIN d <=> TruthyList(c.assignee_ids)
    /\ "due_at" \in DOMAIN d <=> TruthyInt(c.due_date_timestamp)
    /\ "conversation" \in DOMAIN d <=> TruthyStr(c.conversation_id)

\* what the payload of create_task holds
CreateTaskPayload(c, d) ==
    /\ DOMAIN d \subseteq {"title", "description", "organization", "team", "assignees",
                           "due_at", "conversation", "subtask"}
    /\ "title" \in DOMAIN d /\ CutTo(d.title, c.title, 1000)
    /\ "description" \in DOMAIN d /\ CutTo(d.description, c.description, 10000)
    /\ KeyIff(d, "organization", TruthyStr(c.organization_id), c.organization_id[1])
    /\ KeyIff(d, "team", TruthyStr(c.team_id), c.team_id[1])
    /\ KeyIff(d, "assignees", TruthyList(c.assignee_ids), c.assignee_ids[1])
    /\ KeyIff(d, "due_at", TruthyInt(c.due_date_timestamp), c.due_date_timestamp[1])
    /\ KeyIff(d, "conversation", c.is_subtask, c.conversation_id[1])
    /\ KeyIff(d, "subtask", c.is_subtask, TRUE)

\* what the payload of update_task holds
UpdateTaskPayload(c, d) ==
    /\ DOMAIN d \subseteq {"title", "description", "state", "assignees", "team", "due_at"}
    /\ "title" \in DOMAIN d <=> c.title # None
    /\ c.title # None => CutTo(d.title, c.title[1], 1000)
    /\ "description" \in DOMAIN d <=> c.description # None
    /\ c.description # None => CutTo(d.description, c.description[1], 10000)
    /\ KeyIff(d, "state", c.state # None, c.state[1])
    /\ KeyIff(d, "assignees", c.assignee_ids # None, c.assignee_ids[1])
    /\ KeyIff(d, "team", c.team_id # None, c.team_id[1])
    /\ KeyIff(d, "due_at", c.due_date_timestamp # None, c.due_date_timestamp[1])

\* what the payload of create_custom_message holds
CustomMessagePayload(c, d) ==
    /\ DOMAIN d \subseteq {"account", "body", "from_field", "to_fields", "subject",
                           "conversation"}
    /\ {"account", "body", "from_field", "to_fields"} \subseteq DOMAIN d
    /\ d.account = c.account_id /\ d.body = c.body
    /\ KeyIff(d, "subject", TruthyStr(c.subject), c.subject[1])
    /\ KeyIff(d, "conversation", TruthyStr(c.conversation_id), c.conversation_id[1])

\* C11 as stated (a provided field being one given a non-empty value): in the
\* payload of create_task, update_task and create_custom_message an optional
\* field is present exactly when the caller provided it; a field left unset is
\* omitted, never sent as a default, and a provided one is sent.
C11_Original ==
    \A p \in DOMAIN inv : \A i \in DOMAIN Reqs(p) :
        LET c == inv[p].call
            r == Reqs(p)[i]
        IN  /\ c.tool = "create_task" => CreateTaskOnlyProvided(c, r.json[1].tasks)
            /\ c.tool = "update_task" => UpdateTaskPayload(c, r.json[1].tasks)
            /\ c.tool = "create_custom_message" => CustomMessagePayload(c, r.json[1].messages)

\* C11 amended: update_task sends exactly the fields the caller passed (any
\* value other than None); create_task and create_custom_message send an
\* optional field exactly when it was given a non-empty value (not None, "",
\* [] or 0), never as null, with two exceptions in create_task: description is
\* always sent ("" when unset) and conversation is sent only when is_subtask
\* is true, together with subtask.  A field that is sent carries the caller's
\* value, title and description cut to 1000 and 10000 characters.
C11_OptionalFields ==
    \A p \in DOMAIN inv : \A i \in DOMAIN Reqs(p) :
        LET c == inv[p].call
            r == Reqs(p)[i]
        IN  /\ c.tool = "create_task" => CreateTaskPayload(c, r.json[1].tasks)
            /\ c.tool = "update_task" => UpdateTaskPayload(c, r.json[1].tasks)
            /\ c.tool = "create_custom_message" => CustomMessagePayload(c, r.json[1].messages)

\* a standalone task sent with its team and nothing else optional
C11_Witness ==
    \E p \in DOMAIN inv :
        /\ inv[p].call.tool = "create_task"
        /\ Len(inv[p].reqs) = 1
        /\ inv[p].call.team_id = Some("t1")
        /\ inv[p].call.organization_id = None
        /\ inv[p].call.assignee_ids = None
        /\ inv[p].call.due_date_timestamp = None
        /\ DOMAIN inv[p].reqs[1].json[1].tasks = {"title", "description", "team"}

----------------------------------------------------------------------------
(* C12 *)

\* C12 as stated: for every state value given to update_task (with its
\* credential), the value is placed unchanged in the payload and the request
\* is sent; the handler does not restrict state values.
C12_Original ==
    \A p \in DOMAIN inv :
        (/\ Active(p)
         /\ inv[p].call.tool = "update_task"
         /\ HadToken(p)
         /\ inv[p].call.state # None)
        => /\ Len(Reqs(p)) = 1
           /\ Reqs(p)[1].json[1].tasks.state = inv[p].call.state[1]

\* C12 amended: update_task (with its credential) passes a state of todo,
\* in_progress or closed unchanged in the payload of the request it sends; any
\* other state value is rejected with a validation error text and no request
\* is sent.
C12_StateValidated ==
    \A p \in DOMAIN inv :
        (/\ Active(p)
         /\ inv[p].call.tool = "update_task"
         /\ HadToken(p)
         /\ inv[p].call.state # None)
        => IF inv[p].call.state[1] \in {"todo", "in_progress", "closed"}
           THEN /\ Len(Reqs(p)) = 1
                /\ Reqs(p)[1].json[1].tasks.state = inv[p].call.state[1]
           ELSE /\ NoNetwork(p)
                /\ inv[p].result = <<"Error: state must be one of: todo, in_progress, closed">>

C12_Witness ==
    \E p \in DOMAIN inv :
        /\ inv[p].call.tool = "update_task"
        /\ HadToken(p)
        /\ inv[p].call.state = Some("done")
        /\ inv[p].call.title # None
        /\ inv[p].pc = "done"
        /\ inv[p].reqs = <<>>

----------------------------------------------------------------------------
(* C13 *)

WriteTools == {"create_task", "update_task", "create_custom_message"}

SuccessHeaders ==
    {"Task Created Successfully!\n\n", "Task Updated Successfully!\n\n",
     "Message Created Successfully!\n\n"}

\* the invocation of a write tool has returned a text
Wrote(p) ==
    /\ inv[p].call.tool \in WriteTools
    /\ inv[p].pc = "done"
    /\ inv[p].result # <<>>

IsSuccessText(text) == text[1] \in SuccessHeaders

\* the remote platform created or updated the entity
AppliedRemotely(p) == inv[p].outcome # <<>> /\ inv[p].outcome[1].applied

\* C13 as stated: a write tool returns a success text exactly when the remote
\* platform created or updated the entity, and a failure text only when
\* nothing was created or updated remotely.
C13_Original ==
    \A p \in DOMAIN inv :
        Wrote(p) => (IsSuccessText(inv[p].result) <=> AppliedRemotely(p))

\* C13 amended: a write tool returns a success text only when the remote
\* platform answered 2xx, that is, created or updated the entity; when
\* validation fails before the request or the remote answers an error status
\* it returns a failure text and nothing was created or updated; it returns a
\* failure text although the entity was created or updated exactly when the
\* 2xx answer cannot be parsed or is not a JSON object holding a JSON object,
\* or when the transport fails after the request was served.
C13_SuccessOnlyWhenApplied ==
    \A p \in DOMAIN inv :
        Wrote(p) =>
            /\ IsSuccessText(inv[p].result) => AppliedRemotely(p)
            /\ inv[p].outcome = <<>> => ~IsSuccessText(inv[p].result)
            /\ (\E c \in StatusCodes \ {200} : Answered(p, c))
                   => ~IsSuccessText(inv[p].result) /\ ~AppliedRemotely(p)
            /\ (~IsSuccessText(inv[p].result) /\ AppliedRemotely(p))
                   <=> /\ inv[p].outcome # <<>>
                       /\ \/ /\ inv[p].outcome[1].kind = "transport"
                             /\ inv[p].outcome[1].applied
                          \/ /\ Answered(p, 200)
                             /\ inv[p].outcome[1].body \in {"unparseable", "array", "object_bad"}

\* a task was created and the handler, unable to read the answer, reports a failure
C13_Witness ==
    \E p \in DOMAIN inv :
        /\ Wrote(p)
        /\ inv[p].call.tool = "create_task"
        /\ Answered(p, 200)
        /\ inv[p].outcome[1].body = "unparseable"
        /\ inv[p].result = <<"Error creating task: ", "Expecting value: line 1 column 1 (char 0)">>

----------------------------------------------------------------------------
(* C16 *)

\* the request of the invocation failed: an error status or a transport failure
RequestFailed(p) ==
    /\ inv[p].outcome # <<>>
    /\ \/ inv[p].outcome[1].kind = "transport"
       \/ raise_for_status(inv[p].outcome[1].status) # None

\* C16: an invocation issues at most two requests and never retries: once its
\* request has failed with an error status or a transport failure it has no
\* further request built or sent, and it holds the one text that reports the
\* failure.
C16_NoRetry ==
    \A p \in DOMAIN inv :
        /\ Len(Reqs(p)) <= 2
        /\ RequestFailed(p) =>
              /\ Len(inv[p].reqs) = 1
              /\ inv[p].built = <<>>
              /\ inv[p].pc \in {"closing", "done"}
              /\ inv[p].result # <<>>
              /\ ~IsSuccessText(inv[p].result)

C16_Witness ==
    \E p \in DOMAIN inv :
        /\ inv[p].call.tool = "update_task"
        /\ inv[p].pc = "done"
        /\ Answered(p, 500)
        /\ Len(inv[p].reqs) = 1
        /\ inv[p].result = <<"Error updating task: HTTP ", ToString(500)>>

----------------------------------------------------------------------------
(* C19 *)

\* C19: whenever a handler has returned after its request (success, error
\* status, transport failure, parse failure) the client it opened is closed,
\* and a handler that returned on a validation or credential failure never
\* opened one; a client is open only between the opening of the async with
\* block and its end.
C19_ClientReleased ==
    \A p \in DOMAIN inv :
        /\ inv[p].pc = "done" =>
              IF inv[p].outcome = <<>>
              THEN inv[p].client = "none" /\ inv[p].reqs = <<>>
              ELSE inv[p].client = "closed"
        /\ inv[p].client = "open" => inv[p].pc \in {"opened", "awaiting", "closing"}
        /\ inv[p].pc = "idle" => inv[p].client = "none"

\* returned after a transport failure, the client closed
C19_Witness ==
    \E p \in DOMAIN inv :
        /\ inv[p].call.tool = "create_task"
        /\ inv[p].pc = "done"
        /\ inv[p].outcome # <<>>
        /\ inv[p].outcome[1].kind = "transport"
        /\ inv[p].client = "closed"

----------------------------------------------------------------------------
(* C17 *)

\* the step in which the host calls a tool in slot p
Called(p) == inv[p].pc = "idle" /\ inv'[p].pc # "idle"

\* C17: at every call, whatever came before it, the handler works with the
\* credential as the environment holds it at that call: when it is absent or
\* empty the call returns the missing-credential text without a request, and
\* when it is set the request carries that value; the request keeps that value
\* when the environment changes afterwards, and a slot whose invocation is
\* over holds nothing of it.
C17_LookedUpAtEachCall ==
    [][\A p \in DOMAIN inv :
          /\ Called(p) =>
                /\ inv'[p].seen = env
                /\ IF TruthyStr(env)
                   THEN /\ inv'[p].result # MissingTokenText
                        /\ \A i \in DOMAIN inv'[p].built :
                              inv'[p].built[i].authorization = <<"Bearer ", env[1]>>
                   ELSE /\ inv'[p].result = MissingTokenText
                        /\ inv'[p].built = <<>>
                        /\ inv'[p].pc = "done"
          /\ \A i \in DOMAIN inv'[p].reqs :
                inv'[p].reqs[i].authorization = <<"Bearer ", inv'[p].seen[1]>>
          /\ inv'[p].pc = "idle" => inv'[p] = Idle]_vars

\* one invocation made while the credential was absent has returned the
\* missing-credential text, and another made while it was set to tok2 has sent
\* its request with tok2; the credential has since been replaced by tok1
C17_Witness ==
    \E p, q \in DOMAIN inv :
        /\ p # q
        /\ inv[p].pc = "done"
        /\ inv[p].seen = None
        /\ inv[p].result = MissingTokenText
        /\ inv[q].pc = "awaiting"
        /\ inv[q].seen = Some("tok2")
        /\ inv[q].reqs[1].authorization = <<"Bearer ", "tok2">>
        /\ env = Some("tok1")

----------------------------------------------------------------------------
(* C18 *)

\* the requests and the result of slot p are those of the handler run alone
\* with the same parameters, credential and answer
SoloRun(p) ==
    LET c == inv[p].call
        r == prepare(c, inv[p].seen)
    IN  /\ r.kind = "request" => Reqs(p) = <<r.req>>
        /\ r.kind = "return" => Reqs(p) = <<>> /\ inv[p].result = r.text
        /\ r.kind = "raise" => Reqs(p) = <<>> /\ inv[p].raised = <<r.exc>>
        /\ inv[p].outcome # <<>> =>
              LET h == handle_response(c, inv[p].outcome[1])
              IN  IF h.kind = "return"
                  THEN inv[p].result = h.text /\ inv[p].raised = <<>>
                  ELSE inv[p].raised = <<h.exc>> /\ inv[p].result = <<>>

\* a step that changes slot p changes no other slot and not the environment
OwnSlotOnly ==
    \A p \in DOMAIN inv :
        inv'[p] # inv[p] => (env' = env /\ \A q \in DOMAIN inv \ {p} : inv'[q] = inv[q])

\* C18: under every interleaving of the steps of several invocations, the
\* request and the text of each invocation are those of the same invocation
\* run alone with its parameters, credential and answer, and no step of one
\* invocation writes the state of another or the environment.
C18_NoInterference ==
    /\ [](\A p \in DOMAIN inv : Active(p) => SoloRun(p))
    /\ [][OwnSlotOnly]_vars

\* two invocations in flight at once, on different conversations, one answered
C18_Witness ==
    \E p, q \in DOMAIN inv :
        /\ p # q
        /\ inv[p].call.tool = "get_conversation_details"
        /\ inv[p].call.conversation_id = "c1"
        /\ inv[p].pc = "awaiting"
        /\ inv[q].call.tool = "get_conversation_details"
        /\ inv[q].call.conversation_id = "c2"
        /\ Answered(q, 404)
        /\ inv[q].result = <<"Error: Conversation ", "c2", " not found">>

----------------------------------------------------------------------------
(* C14 *)

\* the labels of the labelled lines
Labels ==
    {"From: ", "Assigned: ", "Tasks: ", "ID: ", "Subject: ", "Authors: ", "Assigned to: ",
     "Team: ", "Organization: ", "Messages: ", "Attachments: ", "Drafts: ", "Status: ",
     "Labels: ", "Last activity: ", "Web URL: ", "To: ", "Preview: ", "Delivered: ",
     "Message ID: ", "By: ", "Created: ", "Task: ", "Task State: ", "Due: ",
     "Attachment: ", "Comment ID: ", "Title: ", "Description: ", "State: ", "Task ID: ",
     "Assignees: ", "Conversation: ", "Type: ", "CC: ", "Body: ", "Dimensions: ",
     "Conversation ID: "}

IsLabel(piece) == piece \in Labels

\* the labels of a text, in the order they appear
LabelSeq(text) == SelectSeq(text, IsLabel)

\* the fixed values written for a field the answer does not hold
Fallbacks ==
    {"No subject", "Unknown", "unknown", "No description", "No content", "N/A",
     "Unassigned", "Unknown file", "0"}

\* the labels of the identifier, which every entity has
IdLabels == {"ID: ", "Message ID: ", "Comment ID: ", "Task ID: "}

\* some labelled line of the text has no value
EmptyLabelled(text) ==
    \E i \in DOMAIN text :
        /\ IsLabel(text[i])
        /\ i = Len(text) \/ text[i + 1] \in {"", "\n", "\n\n"}

\* the labelled lines of an answer that holds every optional field once, in order
FullLabels(tool) ==
    CASE tool = "get_conversations" -> <<"From: ">>
      [] tool = "get_conversations_filtered" -> <<"From: ", "Assigned: ", "Tasks: ", "ID: ">>
      [] tool = "get_conversation_details" ->
           <<"Subject: ", "ID: ", "Authors: ", "Assigned to: ", "Team: ", "Organization: ",
             "Messages: ", "Tasks: ", "Attachments: ", "Drafts: ", "Status: ", "Labels: ",
             "Last activity: ", "Web URL: ">>
      [] tool = "get_conversation_messages" ->
           <<"From: ", "To: ", "Preview: ", "Delivered: ", "Attachments: ", "Message ID: ",
             "Message ID: ">>
      [] tool = "get_conversation_comments" ->
           <<"By: ", "Created: ", "Task: ", "Task State: ", "Due: ", "Assigned to: ",
             "Attachment: ", "Comment ID: ", "Comment ID: ">>
      [] tool = "create_task" ->
           <<"Title: ", "Description: ", "State: ", "Task ID: ", "Due: ", "Assignees: ",
             "Team: ", "Conversation: ">>
      [] tool = "update_task" ->
           <<"Title: ", "Description: ", "State: ", "Task ID: ", "Due: ", "Assignees: ",
             "Team: ">>
      [] tool = "get_message_details" ->
           <<"Subject: ", "Type: ", "Message ID: ", "From: ", "To: ", "CC: ", "Delivered: ",
             "Created: ", "Preview: ", "Body: ", "Type: ", "Dimensions: ", "Type: ",
             "Conversation: ", "Conversation ID: ", "Team: ", "Organization: ">>
      [] tool = "search_messages_by_email_id" ->
           <<"From: ", "To: ", "Preview: ", "Delivered: ", "Type: ", "Message ID: ",
             "Type: ", "Message ID: ">>
      [] tool = "create_custom_message" ->
           <<"Subject: ", "Type: ", "Message ID: ", "From: ", "To: ", "Delivered: ">>

\* slot p holds the text formatted from a 2xx answer with the given body
Formatted(p, body) ==
    /\ Answered(p, 200)
    /\ inv[p].outcome[1].body = body
    /\ inv[p].result # <<>>

\* with every optional field present, every labelled line appears in the fixed order
AllLinesInOrder ==
    \A p \in DOMAIN inv :
        Formatted(p, "object_full") => LabelSeq(inv[p].result) = FullLabels(inv[p].call.tool)

\* with every optional field absent, a labelled line is the identifier's or
\* carries a fixed fallback value
AbsentOmitted ==
    \A p \in DOMAIN inv :
        Formatted(p, "object_items") =>
            \A i \in 1..(Len(inv[p].result) - 1) :
                IsLabel(inv[p].result[i]) =>
                    \/ inv[p].result[i] \in IdLabels
                    \/ inv[p].result[i + 1] \in Fallbacks

\* no labelled line without a value
NoEmptyLabel ==
    \A p \in DOMAIN inv :
        (Formatted(p, "object_full") \/ Formatted(p, "object_items"))
            => ~EmptyLabelled(inv[p].result)

\* C14, the fixed fallback values of the data model taken as allowed: for
\* every tool, an answer with every optional field present gives every
\* labelled line in the fixed order, an answer with every optional field
\* absent gives no labelled line but the identifier's and those with a fixed
\* fallback value, and no labelled line has an empty value.
C14_NoEmptyLabels == AllLinesInOrder /\ AbsentOmitted /\ NoEmptyLabel

----------------------------------------------------------------------------
(* C15 *)

\* the bodies of the model with their tags removed, written out
ExpectedClean(body) ==
    CASE body = "object_full" -> <<"H", "e", "l", "l", "o", " ", "w", "o", "r", "l", "d">>
      [] body = "object_long" -> [i \in 1..501 |-> "x"]
      [] body = "object_exact" -> [i \in 1..500 |-> "x"]

\* slot p holds the text of get_message_details for a message with a body
RenderedBody(p) ==
    /\ inv[p].call.tool = "get_message_details"
    /\ \E b \in {"object_full", "object_long", "object_exact"} : Formatted(p, b)

\* C15: the body line of get_message_details holds the body without its
\* tags when that has at most 500 characters, followed by no ellipsis, and its
\* first 500 characters followed by the ellipsis marker when it has more.
C15_BodyStrippedThenCut ==
    \A p \in DOMAIN inv :
        RenderedBody(p) =>
            LET text == inv[p].result
                clean == ExpectedClean(inv[p].outcome[1].body)
                i == CHOOSE i \in DOMAIN text : text[i] = "Body: "
            IN  /\ \E j \in DOMAIN text : text[j] = "Body: "
                /\ IF Len(clean) <= 500
                   THEN /\ SubSeq(text, i + 1, i + Len(clean)) = clean
                        /\ text[i + Len(clean) + 1] = "\n"
                   ELSE /\ SubSeq(text, i + 1, i + 500) = SubSeq(clean, 1, 500)
                        /\ text[i + 501] = "..."
                        /\ text[i + 502] = "\n"

\* a body of 501 characters between its tags, rendered cut with the marker
C15_Witness ==
    \E p \in DOMAIN inv :
        /\ inv[p].call.tool = "get_message_details"
        /\ Formatted(p, "object_long")
        /\ \E i \in DOMAIN inv[p].result :
              inv[p].result[i] = "x" /\ inv[p].result[i + 1] = "..."

====
